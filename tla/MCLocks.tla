------------------------------- MODULE MCLocks -------------------------------
EXTENDS Locks
CONSTANTS c1, c2, c3, s1, s2

\* Two sessions, listed in either order.
BothOrders == {[s \in Session |-> IF s = s1 THEN 1 ELSE 2],
               [s \in Session |-> IF s = s1 THEN 2 ELSE 1]}

\* c3 calls without a pipeline, the others with one.
OneWithoutPipeline == [c \in Caller |-> IF c = c3 THEN {"mixed"} ELSE {"tx"}]
=============================================================================
