------------------------------ MODULE SlotPool ------------------------------
(***************************************************************************)
(* What class CTcpServ promises its application, without slots, counters   *)
(* or threads: connections wait in arrival order, one that left never      *)
(* comes back, and at most Capacity of them are in service at a time until *)
(* the pool is broken, which it may be at any time and then stays.         *)
(***************************************************************************)
EXTENDS Naturals, Sequences, FiniteSets

CONSTANTS Conns,      \* the connections clients may open
          Capacity    \* how many may be in service together

VARIABLES queue,      \* connections waiting to be accepted, oldest first
          active,     \* connections in service
          gone,       \* connections that were served and closed
          broken      \* Capacity is no longer kept

poolVars == <<queue, active, gone, broken>>

Waiting == {queue[k] : k \in 1..Len(queue)}

PoolInit == queue = <<>> /\ active = {} /\ gone = {} /\ broken = FALSE

\* A client connects; the backlog holds no more than Capacity of them.
Arrive(c) ==
    /\ c \notin Waiting \cup active \cup gone
    /\ Len(queue) < Capacity
    /\ queue' = Append(queue, c)
    /\ UNCHANGED <<active, gone>>

\* The oldest waiting client is taken into service, if there is room.
Admit ==
    /\ queue # <<>>
    /\ Cardinality(active) < Capacity \/ broken
    /\ active' = active \cup {Head(queue)}
    /\ queue' = Tail(queue)
    /\ UNCHANGED gone

\* The oldest waiting client is lost by a system call that fails.
TurnAway == queue # <<>> /\ queue' = Tail(queue) /\ UNCHANGED <<active, gone>>

\* A client in service is disconnected.
Leave(c) ==
    /\ c \in active
    /\ active' = active \ {c}
    /\ gone' = gone \cup {c}
    /\ UNCHANGED queue

\* The server stops listening: whoever still waits is turned away.
Shutdown == queue' = <<>> /\ UNCHANGED <<active, gone>>

Idle == UNCHANGED <<queue, active, gone>>

PoolNext ==
    /\ \/ \E c \in Conns : Arrive(c) \/ Leave(c)
       \/ Admit
       \/ TurnAway
       \/ Shutdown
       \/ Idle
    /\ broken' \in {broken, TRUE}

PoolSpec == PoolInit /\ [][PoolNext]_poolVars
=============================================================================
