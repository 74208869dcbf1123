--------------------------- MODULE ReadPool_proofs ---------------------------
(***************************************************************************)
(* Proofs about ReadPool for any number of callers and connections.        *)
(***************************************************************************)
EXTENDS ReadPool, TLAPS

\* A step of c that takes no connection of another caller.
LEMMA OneCallerMoves ==
  ASSUME PInv, NEW c \in Caller, TypeOK', shared' = shared, HeldOK(c)',
         \A d \in Caller \ {c} :
           at'[d] = at[d] /\ want'[d] = want[d] /\ held'[d] = held[d],
         \A d \in Caller \ {c} : All(held'[c]) \cap All(held[d]) = {},
         held'[c].call \cap held'[c].leaked = {},
         held'[c].tx \cap (held'[c].call \cup held'[c].leaked) = {}
  PROVE  PInv'
<1>1. ASSUME NEW d \in Caller PROVE HeldOK(d)'
  <2>1. CASE d = c
    BY <2>1
  <2>2. CASE d # c
    BY <2>2 DEF PInv, HeldOK
  <2>3. QED
    BY <2>1, <2>2
<1>2. OneHolder'
  <2>1. ASSUME NEW d \in Caller, NEW e \in Caller, d # e
        PROVE  All(held'[d]) \cap All(held'[e]) = {}
    <3>1. CASE d = c
      BY <2>1, <3>1
    <3>2. CASE e = c
      BY <2>1, <3>2
    <3>3. CASE d # c /\ e # c
      BY <2>1, <3>3 DEF PInv, OneHolder
    <3>4. QED
      BY <3>1, <3>2, <3>3
  <2>2. ASSUME NEW d \in Caller
        PROVE  /\ held'[d].call \cap held'[d].leaked = {}
               /\ held'[d].tx \cap (held'[d].call \cup held'[d].leaked) = {}
    <3>1. CASE d = c
      BY <3>1
    <3>2. CASE d # c
      BY <3>2 DEF PInv, OneHolder
    <3>3. QED
      BY <3>1, <3>2
  <2>3. QED
    BY <2>1, <2>2 DEF OneHolder, All
<1>3. QED
  BY <1>1, <1>2 DEF PInv

LEMMA InitPInv == Init => PInv
<1> SUFFICES ASSUME Init PROVE PInv
  OBVIOUS
<1>1. TypeOK
  BY DEF Init, TypeOK, Nothing, Kind
<1>2. OneHolder
  BY DEF Init, OneHolder, Nothing, All
<1>3. \A c \in Caller : HeldOK(c)
  BY DEF Init, HeldOK, Nothing
<1>4. QED
  BY <1>1, <1>2, <1>3 DEF PInv

\* What is known of a caller before a step.
LEMMA Before ==
  ASSUME PInv, NEW c \in Caller
  PROVE  /\ at[c] \in {"idle", "waiting", "using"} /\ want[c] \in Kind
         /\ held[c] \in [call : SUBSET Conn, leaked : SUBSET Conn, tx : SUBSET Conn]
         /\ \A d \in Caller \ {c} : All(held[c]) \cap All(held[d]) = {}
         /\ held[c].call \cap held[c].leaked = {}
         /\ held[c].tx \cap (held[c].call \cup held[c].leaked) = {}
         /\ HeldOK(c)
BY DEF PInv, TypeOK, OneHolder

LEMMA CallOK == ASSUME PInv, NEW c \in Caller, NEW k \in Kind, Call(c, k) PROVE PInv'
<1>1. TypeOK' /\ held' = held
  BY DEF Call, PInv, TypeOK
<1>2. HeldOK(c)'
  BY Before DEF Call, PInv, TypeOK, HeldOK
<1>3. \A d \in Caller \ {c} : at'[d] = at[d] /\ want'[d] = want[d] /\ held'[d] = held[d]
  BY DEF Call, PInv, TypeOK
<1>4. QED
  BY <1>1, <1>2, <1>3, Before, OneCallerMoves DEF Call

LEMMA GrantOK == ASSUME PInv, NEW c \in Caller, Grant(c) PROVE PInv'
<1>1. PICK x \in Free :
        held' = [held EXCEPT ![c] = IF want[c] = "begin" THEN [@ EXCEPT !.tx = {x}]
                                                         ELSE [@ EXCEPT !.call = {x}]]
  BY DEF Grant
<1>2. /\ want' = want /\ shared' = shared /\ at[c] = "waiting"
      /\ at' = [at EXCEPT ![c] = IF want[c] = "begin" THEN "idle" ELSE "using"]
  BY DEF Grant
<1>3. x \in Conn /\ \A d \in Caller : x \notin All(held[d])
  BY DEF Free
<1>4. TypeOK'
  BY <1>1, <1>2, <1>3 DEF PInv, TypeOK
<1>5. \A d \in Caller \ {c} : at'[d] = at[d] /\ want'[d] = want[d] /\ held'[d] = held[d]
  BY <1>1, <1>2 DEF PInv, TypeOK
<1>6. /\ at'[c] = IF want[c] = "begin" THEN "idle" ELSE "using"
      /\ held'[c].leaked = held[c].leaked
      /\ want[c] = "begin" => held'[c].tx = {x} /\ held'[c].call = held[c].call
      /\ want[c] # "begin" => held'[c].call = {x} /\ held'[c].tx = held[c].tx
  BY <1>1, <1>2, <1>3 DEF PInv, TypeOK
<1>7. HeldOK(c)'
  BY <1>2, <1>3, <1>6, Before DEF HeldOK
<1>8. /\ held'[c].call \cap held'[c].leaked = {}
      /\ held'[c].tx \cap (held'[c].call \cup held'[c].leaked) = {}
  BY <1>3, <1>6, Before DEF All
<1>9. \A d \in Caller \ {c} : All(held'[c]) \cap All(held[d]) = {}
  BY <1>3, <1>6, Before DEF All
<1>10. QED
  BY <1>2, <1>4, <1>5, <1>7, <1>8, <1>9, OneCallerMoves

\* A step of c that gives back what it gives up, and moves its call at most to
\* the rows left open.
LEMMA GivesUp ==
  ASSUME PInv, NEW c \in Caller, NEW s, s \in {"idle", at[c]},
         NEW h \in [call : SUBSET Conn, leaked : SUBSET Conn, tx : SUBSET Conn],
         at' = [at EXCEPT ![c] = s], want' = want,
         held' = [held EXCEPT ![c] = h], shared' = shared,
         h.call = IF s = "using" THEN held[c].call ELSE {},
         h.leaked \subseteq held[c].leaked \cup (held[c].call \ h.call),
         h.tx \in {{}, held[c].tx}
  PROVE  PInv'
<1>1. TypeOK'
  BY DEF PInv, TypeOK
<1>2. /\ \A d \in Caller \ {c} : at'[d] = at[d] /\ want'[d] = want[d] /\ held'[d] = held[d]
      /\ at'[c] = s /\ held'[c] = h
  BY DEF PInv, TypeOK
<1>3. HeldOK(c)'
  BY <1>2, Before DEF HeldOK
<1>4. \A d \in Caller \ {c} : All(held'[c]) \cap All(held[d]) = {}
  BY <1>2, Before DEF All
<1>5. h.call \cap h.leaked = {} /\ h.tx \cap (h.call \cup h.leaked) = {}
  BY Before
<1>6. QED
  BY <1>1, <1>2, <1>3, <1>4, <1>5, OneCallerMoves

LEMMA FinishOK == ASSUME PInv, NEW c \in Caller, Finish(c) PROVE PInv'
<1> DEFINE h == [call |-> {}, tx |-> held[c].tx,
                 leaked |-> IF GivesBack(want[c]) THEN held[c].leaked
                                                  ELSE held[c].leaked \cup held[c].call]
<1>1. /\ held' = [held EXCEPT ![c] = h] /\ at' = [at EXCEPT ![c] = "idle"]
      /\ want' = want /\ shared' = shared
  BY DEF Finish
<1>2. /\ h \in [call : SUBSET Conn, leaked : SUBSET Conn, tx : SUBSET Conn]
      /\ h.call = {} /\ h.tx = held[c].tx
      /\ h.leaked \subseteq held[c].leaked \cup (held[c].call \ h.call)
  BY Before
<1> HIDE DEF h
<1>3. QED
  BY <1>1, <1>2, GivesUp

LEMMA EndTxOK == ASSUME PInv, NEW c \in Caller, EndTx(c) PROVE PInv'
<1> DEFINE h == [held[c] EXCEPT !.tx = {}]
<1>1. /\ held' = [held EXCEPT ![c] = h] /\ at' = [at EXCEPT ![c] = "idle"]
      /\ at[c] = "idle" /\ want' = want /\ shared' = shared
  BY DEF EndTx, PInv, TypeOK
<1>2. /\ h \in [call : SUBSET Conn, leaked : SUBSET Conn, tx : SUBSET Conn]
      /\ h.call = held[c].call /\ h.tx = {} /\ h.leaked = held[c].leaked
  BY Before
<1>3. h.call = {}
  BY <1>1, <1>2, Before DEF HeldOK
<1> HIDE DEF h
<1>4. QED
  BY <1>1, <1>2, <1>3, GivesUp

LEMMA EndContextOK == ASSUME PInv, NEW c \in Caller, EndContext(c) PROVE PInv'
<1> DEFINE h == [call |-> CallAfterContext(c), tx |-> {}, leaked |-> LeakedAfterContext(c)]
           s == IF want[c] = "lookup" THEN at[c] ELSE "idle"
<1>1. /\ held' = [held EXCEPT ![c] = h] /\ at' = [at EXCEPT ![c] = s]
      /\ want' = want /\ shared' = shared
  BY DEF EndContext
<1>2. /\ h \in [call : SUBSET Conn, leaked : SUBSET Conn, tx : SUBSET Conn]
      /\ h.call = CallAfterContext(c) /\ h.tx = {} /\ h.leaked = {}
  BY Before DEF CallAfterContext, LeakedAfterContext
<1>3. h.call = IF s = "using" THEN held[c].call ELSE {}
  BY <1>2, Before DEF CallAfterContext, HeldOK
<1>4. s \in {"idle", at[c]}
  OBVIOUS
<1> HIDE DEF h, s
<1>5. QED
  BY <1>1, <1>2, <1>3, <1>4, GivesUp

LEMMA NextPInv == PInv /\ [Next]_vars => PInv'
<1> SUFFICES ASSUME PInv, [Next]_vars PROVE PInv'
  OBVIOUS
<1>1. CASE UNCHANGED vars
  BY <1>1 DEF vars, PInv, TypeOK, OneHolder, HeldOK, All
<1>2. ASSUME NEW c \in Caller, NEW k \in Kind, Call(c, k) PROVE PInv'
  BY <1>2, CallOK
<1>3. ASSUME NEW c \in Caller, Grant(c) \/ Finish(c) \/ EndTx(c) \/ EndContext(c)
      PROVE  PInv'
  BY <1>3, GrantOK, FinishOK, EndTxOK, EndContextOK
<1>4. QED
  BY <1>1, <1>2, <1>3 DEF Next

\* What a caller holds agrees with what it does, for pools of any size.
THEOREM ReadPoolInvariance == Spec => []PInv
<1>1. Init => PInv
  BY InitPInv
<1>2. PInv /\ [Next]_vars => PInv'
  BY NextPInv
<1>3. QED
  BY <1>1, <1>2, PTL DEF Spec
=============================================================================
