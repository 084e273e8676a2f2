---------------------------- MODULE TcpServSlots ----------------------------
(***************************************************************************)
(* Proofs about the slots of TcpServ, for every interleaving of main with  *)
(* the services and for failing system calls: who owns a slot, what can    *)
(* make m_clients wrong, and the pool the server implements.               *)
(***************************************************************************)
EXTENDS TcpServProofs, FiniteSetTheorems

Serving == {"serve", "close", "clear"}

(* The thread of a connection that accept() failed to return: its slot looks *)
(* like one whose client is gone already.                                    *)
Stillborn(t) == tpc[t] \in {"serve", "close"} /\ net[t] = "refused"

(* A thread that has not given its slot back owns it. *)
Owner(t) ==
    /\ tpc[t] \in Serving => handle[slot[t]] = tid[t] /\ client_idx[slot[t]] = slot[t]
    /\ tpc[t] \in {"serve", "close"} =>
          \/ net[t] = "open" /\ m_client_sd[slot[t]] = t
          \/ net[t] = "refused" /\ m_client_sd[slot[t]] = INVALID_SOCKET
    /\ tpc[t] = "clear" => net[t] = "closed" /\ m_client_sd[slot[t]] = t
Owners == \A t \in Conns : Owner(t)

(* An open connection is in a slot; one that was not accepted has no thread. *)
Placed == \A c \in Conns : net[c] = "open" => \E s \in Slots : m_client_sd[s] = c
Unaccepted == \A c \in Conns : net[c] \in {"idle", "pending"} => tpc[c] = "none"

FreshClient == pc = "spawn" =>
    /\ tpc[fresh] = "none"
    /\ \/ net[fresh] = "open" /\ m_client_sd[idx] = fresh
       \/ net[fresh] = "refused" /\ m_client_sd[idx] = INVALID_SOCKET

(* What the loops have established: the sweep has joined the stillborn       *)
(* threads of the slots behind it, and the scan has a free slot before it.   *)
Loops ==
    /\ Joining => m_client_sd[i] = INVALID_SOCKET
    /\ pc \in {"sweep", "join"} => \A t \in Conns : Stillborn(t) => slot[t] >= i
    /\ pc = "rejoin" => \A t \in Conns : Stillborn(t) => slot[t] > i
    /\ pc = "closeRejoin" => \A t \in Conns : Stillborn(t) => slot[t] # i
    /\ pc \in {"scan", "accept", "spawn"} => \A t \in Conns : ~Stillborn(t)
    /\ pc = "scan" => \E s \in Slots : s >= i /\ m_client_sd[s] = INVALID_SOCKET
    /\ pc = "accept" => idx \in Slots /\ m_client_sd[idx] = INVALID_SOCKET

(* The slots, as long as m_clients has not missed a client. *)
SlotFacts == Owners /\ Placed /\ Unaccepted /\ FreshClient /\ Loops
SlotInv == ~behind => SlotFacts

(* The backlog holds the pending connections, once each. *)
BacklogPending ==
    /\ \A k \in 1 .. Len(backlog) : net[backlog[k]] = "pending"
    /\ \A j, k \in 1 .. Len(backlog) : backlog[j] = backlog[k] => j = k

(* The clients m_clients should count, and what it is known to be at least. *)
Counted == Cardinality(Leaving) + Cardinality(Used)
Behind ==
    /\ pc \notin {"app", "undefined"} => listening
    /\ ~behind /\ listening => Drift >= 0
    /\ ~behind /\ pc = "incWrite" => reg + 1 >= Counted

SInv == SlotInv /\ BacklogPending /\ Behind

LEMMA InitSInv == Init => SInv
<1> SUFFICES ASSUME Init PROVE SInv
  OBVIOUS
<1> USE ConstAssumption DEF Init
<1>1. Owners
  BY DEF Owners, Owner, Serving
<1>2. Placed /\ Unaccepted /\ FreshClient /\ BacklogPending
  BY DEF Placed, Unaccepted, FreshClient, BacklogPending
<1>3. Loops
  BY DEF Loops, Joining
<1>4. Behind
  BY DEF Behind
<1> QED
  BY <1>1, <1>2, <1>3, <1>4 DEF SInv, SlotInv, SlotFacts

-----------------------------------------------------------------------------
(* Steps that leave slots, threads and connections alone. *)
Quiet == UNCHANGED <<slotVars, tpc, tid, slot, netVars>>
QuietMain == \/ Open \/ Enter \/ Refuse \/ WaitLoop
             \/ SelectTimeout \/ SelectReady \/ SelectError
             \/ Sweep \/ CloseSweep \/ Pick \/ Scan \/ IncRead \/ IncWrite
             \/ CloseEnter
QuietOther == \/ ToggleStop \/ UNCHANGED state
              \/ \E h \in Ids : OtherStart(h) \/ OtherEnd(h)
Wait == Join \/ CloseJoin
WaitAgain == Rejoin \/ CloseRejoin

LEMMA QuietSteps == QuietMain \/ QuietOther => Quiet
<1>1. ASSUME NEW h \in Ids, OtherStart(h) \/ OtherEnd(h) PROVE Quiet
  BY <1>1 DEF Quiet, OtherStart, OtherEnd, threadVars
<1>2. QuietMain => Quiet
  BY DEF Quiet, QuietMain, Open, Enter, WaitLoop, SelectTimeout, Refuse,
     SelectReady, SelectError, Sweep, CloseSweep, SweepStep, Pick, Scan, IncRead,
     IncWrite, CloseEnter, MainOnly, state, threadVars
<1> QED
  BY <1>1, <1>2 DEF Quiet, QuietOther, ToggleStop, state, threadVars

LEMMA OtherSteps == QuietOther => UNCHANGED <<m_clients, mainVars, treg, listening, opens>>
<1>1. ASSUME NEW h \in Ids, OtherStart(h) \/ OtherEnd(h)
      PROVE  UNCHANGED <<m_clients, mainVars, treg, listening, opens>>
  BY <1>1 DEF OtherStart, OtherEnd, threadVars
<1> QED
  BY <1>1 DEF QuietOther, ToggleStop, state, threadVars, appVars

(* The cases of a step in the proofs below. *)
LEMMA StepCases ==
    ASSUME [Next]_vars
    PROVE  \/ QuietMain \/ QuietOther \/ Wait \/ WaitAgain
           \/ Accept \/ Spawn \/ CloseListen
           \/ \E t \in Conns : Thread(t)
           \/ \E c \in Conns : Arrive(c)
  BY NextIsStep DEF Steps, Main, Connect2, Close, QuietMain, QuietOther, Wait,
     WaitAgain

(* What is joined is a thread that has ended, and loses its id. *)
Reaped == \A t \in Conns :
    \/ tpc'[t] = tpc[t] /\ tid'[t] = tid[t] /\ slot'[t] = slot[t]
    \/ tpc[t] = "exited" /\ tpc'[t] = "joined"
LEMMA ReapedByJoin ==
    ASSUME TypeOK, Joined(handle[i])
    PROVE  Reaped /\ tpc' \in [Conns -> ThreadPC]
<1> DEFINE h == handle[i]
           Of(t) == tid[t] = h
<1>1. /\ \A t \in Conns : Of(t) => tpc[t] = "exited"
      /\ tpc' = [t \in Conns |-> IF Of(t) THEN "joined" ELSE tpc[t]]
      /\ tid' = [t \in Conns |-> IF Of(t) THEN NoId ELSE tid[t]]
      /\ slot' = [t \in Conns |-> IF Of(t) THEN 0 ELSE slot[t]]
  BY DEF Joined, Ended
<1> HIDE DEF Of
<1>2. ASSUME NEW t \in Conns
      PROVE  \/ tpc'[t] = tpc[t] /\ tid'[t] = tid[t] /\ slot'[t] = slot[t]
             \/ tpc[t] = "exited" /\ tpc'[t] = "joined"
  BY <1>1
<1>3. tpc' \in [Conns -> ThreadPC]
  BY <1>1 DEF TypeOK, ThreadTypes, ThreadPC
<1> QED
  BY <1>2, <1>3 DEF Reaped

LEMMA WaitSteps ==
    ASSUME TypeOK, Wait \/ WaitAgain
    PROVE  /\ Reaped
           /\ UNCHANGED <<m_client_sd, handle, net, backlog, m_clients, treg,
                          idx, fresh, reg, listening, opens>>
           /\ tpc' \in [Conns -> ThreadPC]
<1>1. UNCHANGED <<tpc, tid, slot>> \/ Joined(handle[i])
  BY DEF Wait, WaitAgain, Join, CloseJoin, WaitStep, Rejoin, CloseRejoin,
     RejoinStep
<1>2. UNCHANGED <<m_client_sd, handle, net, backlog, m_clients, treg,
                  idx, fresh, reg, listening, opens>>
  BY DEF Wait, WaitAgain, Join, CloseJoin, WaitStep, Rejoin, CloseRejoin,
     RejoinStep, CountKept, slotVars, netVars, appVars
<1>3. CASE UNCHANGED <<tpc, tid, slot>>
  BY <1>3, <1>2 DEF Reaped, TypeOK, ThreadTypes
<1> QED
  BY <1>1, <1>2, <1>3, ReapedByJoin

(* A wait that returns has found the thread of its handle ended. *)
LEMMA WaitFound ==
    ASSUME Wait, pc' # "undefined"
    PROVE  /\ UNCHANGED <<i, client_idx>>
           /\ \/ pc = "join" /\ pc' = "rejoin"
              \/ pc = "closeJoin" /\ pc' = "closeRejoin"
           /\ \A t \in Conns : tid[t] = handle[i] => tpc[t] = "exited"
<1>1. UNCHANGED <<i, client_idx>>
  BY DEF Wait, Join, CloseJoin, WaitStep, slotVars
<1>2. handle[i] # NoId
  BY DEF Wait, Join, CloseJoin, WaitStep
<1>3. /\ \/ pc = "join" /\ pc' = "rejoin"
         \/ pc = "closeJoin" /\ pc' = "closeRejoin"
      /\ Joined(handle[i])
  BY <1>2 DEF Wait, Join, CloseJoin, WaitStep
<1> QED
  BY <1>1, <1>3 DEF Joined, Ended

-----------------------------------------------------------------------------
(* The backlog, in every state. *)
LEMMA BacklogStep ==
    ASSUME TypeOK, BacklogPending, [Next]_vars
    PROVE  BacklogPending'
<1> USE DEF TypeOK, NetTypes, BacklogPending
<1>1. CASE QuietMain \/ QuietOther
  BY <1>1, QuietSteps DEF Quiet, netVars
<1>2. CASE Wait \/ WaitAgain \/ Spawn
  BY <1>2, WaitSteps DEF Spawn, netVars
<1>3. CASE Accept
  <2>1. /\ backlog # <<>> /\ backlog' = Tail(backlog)
        /\ \A c \in Conns : c # backlog[1] => net'[c] = net[c]
    BY <1>3 DEF Accept
  <2>2. /\ Len(backlog') = Len(backlog) - 1
        /\ \A k \in 1 .. Len(backlog') : backlog'[k] = backlog[k + 1]
    BY <2>1
  <2>3. \A k \in 1 .. Len(backlog) : backlog[k] \in Conns
    OBVIOUS
  <2> QED
    BY <2>1, <2>2, <2>3
<1>4. CASE CloseListen
  BY <1>4 DEF CloseListen
<1>5. ASSUME NEW t \in Conns, Thread(t) PROVE BacklogPending'
  <2>1. UNCHANGED backlog /\ \A c \in Conns : net[c] = "pending" => net'[c] = "pending"
    BY <1>5 DEF Thread, Disconnect, CloseFd, ClearSlot, DecRead, DecWrite, Goto
  <2> QED
    BY <2>1
<1>6. ASSUME NEW c \in Conns, Arrive(c) PROVE BacklogPending'
  <2>1. /\ net[c] = "idle" /\ net' = [net EXCEPT ![c] = "pending"]
        /\ backlog' = Append(backlog, c)
    BY <1>6 DEF Arrive
  <2>2. /\ Len(backlog') = Len(backlog) + 1 /\ backlog'[Len(backlog) + 1] = c
        /\ \A k \in 1 .. Len(backlog) : backlog'[k] = backlog[k] /\ backlog[k] # c
    BY <2>1
  <2>3. \A k \in 1 .. Len(backlog) : backlog[k] \in Conns
    OBVIOUS
  <2>4. \A k \in 1 .. Len(backlog') : net'[backlog'[k]] = "pending"
    BY <2>1, <2>2, <2>3
  <2>5. \A j, k \in 1 .. Len(backlog') : backlog'[j] = backlog'[k] => j = k
    BY <2>2
  <2> QED
    BY <2>4, <2>5
<1> QED
  BY <1>1, <1>2, <1>3, <1>4, <1>5, <1>6, StepCases

(* The connection at the head of the backlog has no thread and no slot yet. *)
LEMMA HeadPending ==
    ASSUME TypeOK, BacklogPending, backlog # <<>>
    PROVE  Head(backlog) \in Conns /\ net[Head(backlog)] = "pending"
  BY DEF TypeOK, NetTypes, BacklogPending

-----------------------------------------------------------------------------
(* A step of a service that owns its slot. *)
LEMMA CloseOwn ==
    ASSUME NEW t \in Conns, TypeOK, Owners, CloseFd(t)
    PROVE  /\ tpc[t] = "close"
           /\ UNCHANGED <<m_client_sd, client_idx, handle, tid, slot, backlog, mainVars>>
           /\ \A u \in Conns : u # t => tpc'[u] = tpc[u] /\ net'[u] = net[u]
           /\ \/ /\ m_client_sd[slot[t]] = t /\ net[t] = "open"
                 /\ tpc'[t] = "clear" /\ net'[t] = "closed"
                 /\ net' = [net EXCEPT ![t] = "closed"]
              \/ /\ m_client_sd[slot[t]] = INVALID_SOCKET /\ net[t] = "refused"
                 /\ tpc'[t] = "exited" /\ net' = net
<1>1. \/ net[t] = "open" /\ m_client_sd[slot[t]] = t
      \/ net[t] = "refused" /\ m_client_sd[slot[t]] = INVALID_SOCKET
  BY DEF CloseFd, Owners, Owner
<1>2. /\ tpc[t] = "close"
      /\ UNCHANGED <<m_client_sd, client_idx, handle, tid, slot, backlog, mainVars>>
      /\ \/ /\ m_client_sd[slot[t]] = t /\ net[t] = "open"
            /\ net' = [net EXCEPT ![t] = "closed"]
            /\ tpc' = [tpc EXCEPT ![t] = "clear"]
         \/ /\ m_client_sd[slot[t]] = INVALID_SOCKET /\ net[t] = "refused"
            /\ net' = net
            /\ tpc' = [tpc EXCEPT ![t] = "exited"]
  BY <1>1, ConstAssumption DEF CloseFd, Descriptor, Goto
<1> QED
  BY <1>2 DEF TypeOK, ThreadTypes, NetTypes

LEMMA ClearOwn ==
    ASSUME NEW t \in Conns, TypeOK, Owners, ClearSlot(t)
    PROVE  /\ tpc[t] = "clear" /\ m_client_sd[slot[t]] = t /\ net[t] = "closed"
           /\ UNCHANGED <<client_idx, handle, tid, slot, net, backlog, mainVars>>
           /\ m_client_sd' = [m_client_sd EXCEPT ![slot[t]] = INVALID_SOCKET]
           /\ tpc'[t] = "dec" /\ \A u \in Conns : u # t => tpc'[u] = tpc[u]
           /\ \A s \in Slots : s # slot[t] => m_client_sd'[s] = m_client_sd[s]
           /\ m_client_sd'[slot[t]] = INVALID_SOCKET
<1>1. /\ tpc[t] = "clear" /\ m_client_sd[slot[t]] = t /\ net[t] = "closed"
      /\ UNCHANGED <<client_idx, handle, tid, slot, net, backlog, mainVars>>
      /\ m_client_sd' = [m_client_sd EXCEPT ![slot[t]] = INVALID_SOCKET]
      /\ tpc' = [tpc EXCEPT ![t] = "dec"]
  BY DEF ClearSlot, Goto, Owners, Owner
<1> QED
  BY <1>1 DEF TypeOK, ThreadTypes, SlotTypes

(* The other steps of a service only move it on. *)
Move(t) == \/ tpc[t] = "serve" /\ tpc' = [tpc EXCEPT ![t] = "close"]
           \/ tpc[t] = "dec" /\ tpc' = [tpc EXCEPT ![t] = "decWrite"]
           \/ tpc[t] = "decWrite" /\ tpc' = [tpc EXCEPT ![t] = "exited"]
LEMMA ThreadSteps ==
    ASSUME NEW t \in Conns, Thread(t)
    PROVE  \/ CloseFd(t) \/ ClearSlot(t)
           \/ Move(t) /\ UNCHANGED <<m_client_sd, client_idx, handle, tid, slot, net,
                                     backlog, mainVars>>
  BY DEF Thread, Disconnect, DecRead, DecWrite, Goto, Move

(* accept() under SlotFacts: a free slot gets the connection, or nothing. *)
LEMMA AcceptFree ==
    ASSUME TypeOK, BacklogPending, SlotFacts, Accept
    PROVE  /\ idx \in Slots /\ m_client_sd[idx] = INVALID_SOCKET
           /\ fresh' \in Conns /\ net[fresh'] = "pending" /\ tpc[fresh'] = "none"
           /\ pc = "accept" /\ pc' = "spawn"
           /\ UNCHANGED <<i, idx, client_idx, handle, tpc, tid, slot>>
           /\ \/ /\ m_client_sd' = [m_client_sd EXCEPT ![idx] = fresh']
                 /\ net' = [net EXCEPT ![fresh'] = "open"]
              \/ /\ m_client_sd' = m_client_sd
                 /\ net' = [net EXCEPT ![fresh'] = "refused"]
<1> DEFINE h == Head(backlog)
<1>1. h \in Conns /\ net[h] = "pending" /\ fresh' = h
  BY HeadPending DEF Accept
<1>2. tpc[h] = "none"
  BY <1>1 DEF SlotFacts, Unaccepted
<1>3. pc = "accept" /\ idx \in Slots /\ m_client_sd[idx] = INVALID_SOCKET
  BY DEF Accept, SlotFacts, Loops
<1>4. /\ StoredAt(h) = [m_client_sd EXCEPT ![idx] = h]
      /\ StoredAt(INVALID_SOCKET) = m_client_sd
  BY <1>3 DEF StoredAt, TypeOK, SlotTypes
<1>5. \/ m_client_sd' = StoredAt(h) /\ net' = [net EXCEPT ![h] = "open"]
      \/ m_client_sd' = StoredAt(INVALID_SOCKET) /\ net' = [net EXCEPT ![h] = "refused"]
  BY DEF Accept
<1>6. pc' = "spawn" /\ UNCHANGED <<i, idx, client_idx, handle, tpc, tid, slot>>
  BY <1>3 DEF Accept
<1> QED
  BY <1>1, <1>2, <1>3, <1>4, <1>5, <1>6

(* The new thread, or none, for a slot that nobody owns. *)
LEMMA SpawnFree ==
    ASSUME TypeOK, MainInv, SlotFacts, Spawn
    PROVE  /\ idx \in Slots /\ fresh \in Conns /\ tpc[fresh] = "none"
           /\ \A t \in Conns : tpc[t] \in Serving => slot[t] # idx
           /\ pc = "spawn" /\ pc' = "inc" /\ UNCHANGED <<i, idx, m_client_sd, net, backlog>>
           /\ client_idx' = [client_idx EXCEPT ![idx] = idx]
           /\ \/ UNCHANGED <<handle, tid, tpc, slot>>
              \/ \E h \in Ids : /\ handle' = [handle EXCEPT ![idx] = h]
                                /\ tid' = [tid EXCEPT ![fresh] = h]
                                /\ tpc' = [tpc EXCEPT ![fresh] = "serve"]
                                /\ slot' = [slot EXCEPT ![fresh] = idx]
<1>1. /\ idx \in Slots /\ fresh \in Conns /\ pc = "spawn" /\ pc' = "inc"
      /\ UNCHANGED <<i, idx, m_client_sd, net, backlog>>
      /\ client_idx' = [client_idx EXCEPT ![idx] = idx]
  BY DEF Spawn, MainInv, ParamsOf, netVars
<1>2. tpc[fresh] = "none" /\ m_client_sd[idx] \in {fresh, INVALID_SOCKET}
  BY <1>1 DEF SlotFacts, FreshClient
<1>3. ASSUME NEW t \in Conns, tpc[t] \in Serving, slot[t] = idx PROVE FALSE
  <2>1. ~Stillborn(t)
    BY <1>1 DEF SlotFacts, Loops
  <2>2. m_client_sd[idx] = t
    BY <1>3, <2>1 DEF SlotFacts, Owners, Owner, Stillborn, Serving
  <2>3. t = fresh
    BY <1>2, <2>2, ConstAssumption
  <2> QED
    BY <1>2, <1>3, <2>3 DEF Serving
<1>4. \/ UNCHANGED <<handle, tid, tpc, slot>>
      \/ \E h \in Ids : /\ handle' = [handle EXCEPT ![idx] = h]
                        /\ tid' = [tid EXCEPT ![fresh] = h]
                        /\ tpc' = [tpc EXCEPT ![fresh] = "serve"]
                        /\ slot' = [slot EXCEPT ![fresh] = idx]
  BY DEF Spawn, FreeIds
<1> QED
  BY <1>1, <1>2, <1>3, <1>4

-----------------------------------------------------------------------------
(* main joins no thread that still owns its slot: the thread of a finished   *)
(* slot's handle has ended when the first wait returns.                      *)
LEMMA RejoinClean ==
    ASSUME TypeOK, MainInv, SlotFacts, WaitAgain
    PROVE  /\ i \in Slots /\ \A t \in Conns : tpc[t] \in Serving => slot[t] # i
           /\ client_idx' = [client_idx EXCEPT ![i] = -1] /\ i' = i + 1
           /\ \/ pc = "rejoin" /\ pc' = "sweep"
              \/ pc = "closeRejoin" /\ pc' = "closeSweep"
<1>1. /\ client_idx' = [client_idx EXCEPT ![i] = -1] /\ i' = i + 1
      /\ \/ pc = "rejoin" /\ pc' = "sweep"
         \/ pc = "closeRejoin" /\ pc' = "closeSweep"
  BY DEF WaitAgain, Rejoin, CloseRejoin, RejoinStep
<1>2. i \in Slots /\ m_client_sd[i] = INVALID_SOCKET
  BY <1>1 DEF MainInv, Joining, SlotFacts, Loops
<1>3. ASSUME NEW t \in Conns, tpc[t] \in Serving, slot[t] = i PROVE FALSE
  <2>1. Stillborn(t)
    BY <1>2, <1>3, ConstAssumption DEF SlotFacts, Owners, Owner, Stillborn, Serving
  <2> QED
    BY <1>1, <1>2, <1>3, <2>1 DEF SlotFacts, Loops, Slots
<1> QED
  BY <1>1, <1>2, <1>3

LEMMA OwnersThread ==
    ASSUME NEW t \in Conns, TypeOK, SlotFacts, Thread(t)
    PROVE  Owners'
<1> SUFFICES ASSUME NEW u \in Conns PROVE Owner(u)'
  BY DEF Owners
<1>0. Owners /\ Owner(u) /\ Owner(t)
  BY DEF SlotFacts, Owners
<1>1. CASE CloseFd(t)
  <2>1. /\ UNCHANGED <<m_client_sd, client_idx, handle, tid, slot>>
        /\ tpc[t] = "close" /\ tpc'[t] \in {"clear", "exited"}
        /\ u # t => tpc'[u] = tpc[u] /\ net'[u] = net[u]
        /\ tpc'[t] = "clear" => m_client_sd[slot[t]] = t /\ net'[t] = "closed"
    BY <1>0, <1>1, CloseOwn
  <2> QED
    BY <1>0, <2>1 DEF Owner, Serving
<1>2. CASE ClearSlot(t)
  <2>1. /\ UNCHANGED <<client_idx, handle, tid, slot, net>>
        /\ \A s \in Slots : s # slot[t] => m_client_sd'[s] = m_client_sd[s]
        /\ m_client_sd[slot[t]] = t /\ tpc'[t] = "dec"
        /\ u # t => tpc'[u] = tpc[u]
    BY <1>0, <1>2, ClearOwn
  <2>2. slot[u] \in Slots
    BY DEF TypeOK, ThreadTypes
  <2> QED
    BY <1>0, <2>1, <2>2, ConstAssumption DEF Owner, Serving
<1>3. CASE Move(t) /\ UNCHANGED <<m_client_sd, client_idx, handle, tid, slot, net>>
  <2>1. /\ u # t => tpc'[u] = tpc[u]
        /\ \/ tpc[t] = "serve" /\ tpc'[t] = "close"
           \/ tpc'[t] \in {"decWrite", "exited"}
    BY <1>3 DEF Move, TypeOK, ThreadTypes
  <2> QED
    BY <1>0, <1>3, <2>1 DEF Owner, Serving
<1> QED
  BY <1>1, <1>2, <1>3, ThreadSteps

LEMMA PlacedThread ==
    ASSUME NEW t \in Conns, TypeOK, SlotFacts, Thread(t)
    PROVE  Placed' /\ Unaccepted'
<1>0. Owners /\ Placed /\ Unaccepted
  BY DEF SlotFacts
<1>1. CASE CloseFd(t)
  <2>1. UNCHANGED m_client_sd /\ tpc[t] = "close" /\ net[t] \in {"open", "refused"}
    BY <1>0, <1>1, CloseOwn
  <2>2. \A u \in Conns : /\ u # t => net'[u] = net[u] /\ tpc'[u] = tpc[u]
                         /\ u = t => net'[u] \in {"closed", "refused"}
    BY <1>0, <1>1, CloseOwn
  <2> QED
    BY <1>0, <2>1, <2>2 DEF Placed, Unaccepted
<1>2. CASE ClearSlot(t)
  <2>1. /\ UNCHANGED net /\ net[t] = "closed" /\ m_client_sd[slot[t]] = t
        /\ \A s \in Slots : s # slot[t] => m_client_sd'[s] = m_client_sd[s]
        /\ \A u \in Conns : u # t => tpc'[u] = tpc[u]
    BY <1>0, <1>2, ClearOwn
  <2> QED
    BY <1>0, <2>1 DEF Placed, Unaccepted
<1>3. CASE Move(t) /\ UNCHANGED <<m_client_sd, net>>
  <2>1. tpc[t] # "none" /\ \A u \in Conns : u # t => tpc'[u] = tpc[u]
    BY <1>3 DEF Move, TypeOK, ThreadTypes
  <2> QED
    BY <1>0, <1>3, <2>1 DEF Placed, Unaccepted
<1> QED
  BY <1>1, <1>2, <1>3, ThreadSteps

LEMMA OwnersStep ==
    ASSUME TypeOK, MainInv, BacklogPending, SlotFacts, [Next]_vars
    PROVE  Owners'
<1> USE ConstAssumption DEF TypeOK, ThreadTypes, SlotTypes, NetTypes, Owners, Owner,
        Serving, SlotFacts
<1>1. CASE QuietMain \/ QuietOther
  BY <1>1, QuietSteps DEF Quiet, slotVars, netVars
<1>2. CASE Wait
  BY <1>2, WaitSteps DEF Reaped, Wait, Join, CloseJoin, WaitStep, slotVars
<1>3. CASE WaitAgain
  BY <1>3, WaitSteps, RejoinClean DEF Reaped
<1>4. CASE Accept
  BY <1>4, AcceptFree DEF Stillborn, Loops
<1>5. CASE Spawn
  <2>1. CASE UNCHANGED <<handle, tid, tpc, slot>>
    BY <1>5, <2>1, SpawnFree
  <2>2. ASSUME NEW h \in Ids, /\ handle' = [handle EXCEPT ![idx] = h]
                              /\ tid' = [tid EXCEPT ![fresh] = h]
                              /\ tpc' = [tpc EXCEPT ![fresh] = "serve"]
                              /\ slot' = [slot EXCEPT ![fresh] = idx]
        PROVE  Owners'
    BY <1>5, <2>2, SpawnFree DEF FreshClient
  <2> QED
    BY <1>5, <2>1, <2>2, SpawnFree
<1>6. CASE CloseListen
  BY <1>6 DEF CloseListen, slotVars, threadVars, Unaccepted
<1>7. ASSUME NEW t \in Conns, Thread(t) PROVE Owners'
  BY <1>7, OwnersThread
<1>8. ASSUME NEW c \in Conns, Arrive(c) PROVE Owners'
  BY <1>8 DEF Arrive, slotVars, threadVars, Unaccepted
<1> QED
  BY <1>1, <1>2, <1>3, <1>4, <1>5, <1>6, <1>7, <1>8, StepCases

LEMMA PlacedStep ==
    ASSUME TypeOK, MainInv, BacklogPending, SlotFacts, [Next]_vars
    PROVE  Placed' /\ Unaccepted'
<1> USE ConstAssumption DEF TypeOK, ThreadTypes, SlotTypes, NetTypes, Placed,
        Unaccepted, SlotFacts
<1>1. CASE QuietMain \/ QuietOther
  BY <1>1, QuietSteps DEF Quiet, slotVars, netVars
<1>2. CASE Wait \/ WaitAgain
  BY <1>2, WaitSteps DEF Reaped
<1>3. CASE Accept
  BY <1>3, AcceptFree
<1>4. CASE Spawn
  <2>1. net[fresh] \in {"open", "refused"} /\ UNCHANGED <<net, m_client_sd>>
    BY <1>4, SpawnFree DEF FreshClient
  <2>2. \A c \in Conns : c # fresh => tpc'[c] = tpc[c]
    BY <1>4, SpawnFree
  <2> QED
    BY <2>1, <2>2
<1>5. CASE CloseListen
  BY <1>5 DEF CloseListen, slotVars, threadVars
<1>6. ASSUME NEW t \in Conns, Thread(t) PROVE Placed' /\ Unaccepted'
  BY <1>6, PlacedThread
<1>7. ASSUME NEW c \in Conns, Arrive(c) PROVE Placed' /\ Unaccepted'
  BY <1>7 DEF Arrive, slotVars, threadVars
<1> QED
  BY <1>1, <1>2, <1>3, <1>4, <1>5, <1>6, <1>7, StepCases

LEMMA FreshThread ==
    ASSUME NEW t \in Conns, TypeOK, MainInv, SlotFacts, Thread(t)
    PROVE  FreshClient'
<1> SUFFICES ASSUME pc' = "spawn" PROVE FreshClient'
  BY DEF FreshClient
<1>0. UNCHANGED <<pc, idx, fresh>> /\ Owners /\ FreshClient
  BY DEF Thread, Disconnect, CloseFd, ClearSlot, DecRead, DecWrite, Goto, mainVars,
     SlotFacts
<1>1. fresh \in Conns /\ idx \in Slots /\ tpc[fresh] = "none"
  BY <1>0 DEF MainInv, FreshClient
<1>2. tpc[t] # "none" /\ \A u \in Conns : u # t => tpc'[u] = tpc[u]
  BY DEF Thread, Disconnect, CloseFd, ClearSlot, DecRead, DecWrite, Goto, TypeOK,
     ThreadTypes
<1>3. net'[fresh] = net[fresh] /\ m_client_sd'[idx] = m_client_sd[idx]
  <2>1. CASE CloseFd(t)
    BY <1>0, <1>1, <1>2, <2>1, CloseOwn
  <2>2. CASE ClearSlot(t)
    <3>1. /\ UNCHANGED net /\ m_client_sd[slot[t]] = t /\ m_client_sd'[slot[t]] = INVALID_SOCKET
          /\ \A s \in Slots : s # slot[t] => m_client_sd'[s] = m_client_sd[s]
      BY <1>0, <2>2, ClearOwn
    <3>2. m_client_sd[idx] = INVALID_SOCKET \/ m_client_sd[idx] = fresh
      BY <1>0 DEF FreshClient
    <3> QED
      BY <1>1, <1>2, <3>1, <3>2, ConstAssumption
  <2> QED
    BY <2>1, <2>2, ThreadSteps
<1> QED
  BY <1>0, <1>1, <1>2, <1>3 DEF FreshClient

LEMMA FreshStep ==
    ASSUME TypeOK, MainInv, BacklogPending, SlotFacts, [Next]_vars
    PROVE  FreshClient'
<1> USE ConstAssumption DEF TypeOK, ThreadTypes, SlotTypes, NetTypes, FreshClient,
        SlotFacts
<1>1. CASE QuietMain \/ QuietOther
  <2>1. /\ UNCHANGED <<m_client_sd, tpc, net>>
        /\ \/ pc' # "spawn"
           \/ UNCHANGED <<pc, idx, fresh>>
    BY <1>1, QuietSteps, OtherSteps DEF Quiet, slotVars, netVars, QuietMain, Open,
       Enter, WaitLoop, SelectTimeout, Refuse, SelectReady, SelectError, Sweep,
       CloseSweep, SweepStep, Pick, Scan, IncRead, IncWrite, CloseEnter, state,
       mainVars
  <2> QED
    BY <2>1
<1>2. CASE Wait \/ WaitAgain \/ Spawn \/ CloseListen
  BY <1>2 DEF Wait, WaitAgain, Join, CloseJoin, WaitStep, Rejoin, CloseRejoin,
     RejoinStep, Spawn, CloseListen
<1>3. CASE Accept
  BY <1>3, AcceptFree
<1>4. ASSUME NEW t \in Conns, Thread(t) PROVE FreshClient'
  BY <1>4, FreshThread
<1>5. ASSUME NEW c \in Conns, Arrive(c) PROVE FreshClient'
  BY <1>5 DEF Arrive, mainVars, slotVars, threadVars, MainInv
<1> QED
  BY <1>1, <1>2, <1>3, <1>4, <1>5, StepCases DEF FreshClient

-----------------------------------------------------------------------------
LEMMA Finite == /\ IsFiniteSet(Used) /\ Cardinality(Used) \in Nat
                /\ IsFiniteSet(Leaving) /\ Cardinality(Leaving) \in Nat
                /\ IsFiniteSet(Slots) /\ Cardinality(Slots) = MAX_CLIENTS
<1>1. IsFiniteSet(Slots) /\ Cardinality(Slots) = MAX_CLIENTS
  BY ConstAssumption, FS_Interval DEF Slots
<1>2. Used \subseteq Slots /\ Leaving \subseteq Conns
  BY DEF Used, Leaving
<1> QED
  BY <1>1, <1>2, ConstAssumption, FS_Subset, FS_CardinalityType

(* The services main has admitted, or is about to, are no more than m_clients *)
(* says: so while there is room for one more client, some slot is free.       *)
LEMMA FreeSlot ==
    ASSUME IInv, Behind, ~behind, Pick
    PROVE  \E s \in Slots : m_client_sd[s] = INVALID_SOCKET
<1>1. pc = "sweep" /\ m_clients \in Int /\ m_clients < MAX_CLIENTS
  BY DEF Pick, IInv, TypeOK, CountInv, Admitting
<1>2. Cardinality(Used) <= m_clients
  BY <1>1, Finite DEF Behind, Drift, Admitted
<1>3. Used # Slots
  BY <1>1, <1>2, Finite, ConstAssumption
<1> QED
  BY <1>3 DEF Used

LEMMA LoopsThread ==
    ASSUME NEW t \in Conns, TypeOK, MainInv, SlotFacts, Thread(t)
    PROVE  Loops'
<1>0. Owners /\ Loops
  BY DEF SlotFacts
<1>1. UNCHANGED mainVars /\ (Joining => i \in Slots)
  BY DEF Thread, Disconnect, CloseFd, ClearSlot, DecRead, DecWrite, Goto, MainInv
<1>2. /\ UNCHANGED slot
      /\ \A s \in Slots : m_client_sd[s] = INVALID_SOCKET => m_client_sd'[s] = INVALID_SOCKET
  <2>1. CASE ClearSlot(t)
    BY <1>0, <2>1, ClearOwn DEF TypeOK, ThreadTypes
  <2> QED
    BY <1>0, <2>1, ThreadSteps, CloseOwn
<1>3. ASSUME NEW u \in Conns, Stillborn(u)' PROVE Stillborn(u)
  <2>1. CASE CloseFd(t)
    BY <1>0, <1>3, <2>1, CloseOwn DEF Stillborn
  <2>2. CASE ClearSlot(t)
    BY <1>0, <1>3, <2>2, ClearOwn DEF Stillborn
  <2>3. CASE Move(t) /\ UNCHANGED net
    BY <1>3, <2>3 DEF Stillborn, Move, TypeOK, ThreadTypes
  <2> QED
    BY <2>1, <2>2, <2>3, ThreadSteps
<1> QED
  BY <1>0, <1>1, <1>2, <1>3 DEF Loops, mainVars, Joining

LEMMA LoopsStep ==
    ASSUME IInv, SInv, ~behind, [Next]_vars
    PROVE  Loops'
<1> USE DEF Joining
<1>0. TypeOK /\ MainInv /\ BacklogPending /\ Behind /\ SlotFacts /\ Loops
  BY DEF IInv, SInv, SlotInv, SlotFacts
<1>T. MAX_CLIENTS \in Nat /\ i \in Nat /\ \A t \in Conns : slot[t] \in Slots
  BY <1>0, ConstAssumption DEF TypeOK, MainTypes, ThreadTypes
<1>1. CASE QuietMain
  <2>0. /\ UNCHANGED <<m_client_sd, slot>> /\ \A t \in Conns : Stillborn(t)' = Stillborn(t)
    BY <1>1, QuietSteps DEF Quiet, slotVars, netVars, Stillborn
  <2>1. CASE Sweep \/ CloseSweep
    <3>1. ASSUME NEW t \in Conns, Stillborn(t), slot[t] = i PROVE Finished(i)
      BY <1>0, <3>1 DEF SlotFacts, Owners, Owner, Stillborn, Serving, Finished
    <3>2. \/ pc' = pc /\ pc \in {"sweep", "closeSweep"} /\ i' = i + 1 /\ ~Finished(i)
          \/ pc = "sweep" /\ pc' = "join" /\ i' = i /\ Finished(i)
          \/ pc = "closeSweep" /\ pc' = "closeJoin" /\ i' = i /\ Finished(i)
      BY <2>1 DEF Sweep, CloseSweep, SweepStep
    <3> QED
      BY <1>0, <1>T, <2>0, <3>1, <3>2 DEF Loops, Finished, Slots
  <2>2. CASE Pick
    <3>1. \E s \in Slots : m_client_sd[s] = INVALID_SOCKET
      BY <1>0, <2>2, FreeSlot
    <3>2. pc = "sweep" /\ i = MAX_CLIENTS /\ pc' = "scan" /\ i' = 0
      BY <2>2 DEF Pick
    <3> QED
      BY <1>0, <1>T, <2>0, <3>1, <3>2 DEF Loops, Slots
  <2>3. CASE Scan
    <3>1. pc = "scan" /\ i \in 0 .. MAX_CLIENTS
      BY <1>0, <2>3 DEF Scan, TypeOK, MainTypes
    <3>2. \/ /\ i < MAX_CLIENTS /\ m_client_sd[i] = INVALID_SOCKET
             /\ idx' = i /\ pc' = "accept"
          \/ /\ i < MAX_CLIENTS /\ m_client_sd[i] # INVALID_SOCKET
             /\ i' = i + 1 /\ pc' = "scan"
          \/ i = MAX_CLIENTS
      BY <2>3 DEF Scan
    <3> QED
      BY <1>0, <1>T, <2>0, <3>1, <3>2 DEF Loops, Slots
  <2>4. CASE SelectReady
    BY <1>T, <2>0, <2>4 DEF SelectReady, Loops, Slots
  <2>5. CASE pc' \notin {"sweep", "join", "rejoin", "closeJoin", "closeRejoin", "scan",
                        "accept", "spawn"}
    BY <2>5 DEF Loops
  <2>6. CASE UNCHANGED mainVars
    BY <1>0, <2>0, <2>6 DEF Loops, mainVars
  <2> QED
    BY <1>1, <2>1, <2>2, <2>3, <2>4, <2>5, <2>6 DEF QuietMain, Open, Enter, Refuse,
       WaitLoop, SelectTimeout, SelectError, IncRead, IncWrite, CloseEnter, state
<1>2. CASE QuietOther
  <2>1. /\ UNCHANGED <<m_client_sd, slot, mainVars>>
        /\ \A t \in Conns : Stillborn(t)' = Stillborn(t)
    BY <1>2, QuietSteps, OtherSteps DEF Quiet, slotVars, netVars, Stillborn
  <2> QED
    BY <1>0, <2>1 DEF Loops, mainVars
<1>3. CASE Wait
  <2>1. CASE pc' = "undefined"
    BY <2>1 DEF Loops
  <2>2. CASE pc' # "undefined"
    <3>1. /\ UNCHANGED <<i, m_client_sd, handle, net>>
          /\ \/ pc = "join" /\ pc' = "rejoin"
             \/ pc = "closeJoin" /\ pc' = "closeRejoin"
          /\ \A t \in Conns : tid[t] = handle[i] => tpc[t] = "exited"
      BY <1>0, <1>3, <2>2, WaitFound, WaitSteps
    <3>2. ASSUME NEW t \in Conns, Stillborn(t)' PROVE Stillborn(t) /\ slot'[t] = slot[t]
      BY <1>0, <1>3, <3>1, <3>2, WaitSteps DEF Reaped, Stillborn
    <3>3. ASSUME NEW t \in Conns, Stillborn(t) PROVE slot[t] # i
      BY <1>0, <3>1, <3>3 DEF SlotFacts, Owners, Owner, Stillborn, Serving
    <3> QED
      BY <1>0, <1>T, <3>1, <3>2, <3>3 DEF Loops, Slots
  <2> QED
    BY <2>1, <2>2
<1>4. CASE WaitAgain
  <2>1. i' = i + 1 /\ \/ pc = "rejoin" /\ pc' = "sweep"
                      \/ pc = "closeRejoin" /\ pc' = "closeSweep"
    BY <1>0, <1>4, RejoinClean
  <2>2. ASSUME NEW t \in Conns, Stillborn(t)' PROVE Stillborn(t) /\ slot'[t] = slot[t]
    BY <1>0, <1>4, <2>2, WaitSteps DEF Reaped, Stillborn
  <2> QED
    BY <1>0, <1>T, <2>1, <2>2 DEF Loops, Slots
<1>5. CASE Accept
  <2>1. /\ pc = "accept" /\ pc' = "spawn" /\ fresh' \in Conns /\ tpc[fresh'] = "none"
        /\ tpc' = tpc /\ \A t \in Conns : t # fresh' => net'[t] = net[t]
    BY <1>0, <1>5, AcceptFree DEF TypeOK, NetTypes
  <2> QED
    BY <1>0, <2>1 DEF Loops, Stillborn
<1>6. CASE Spawn \/ CloseListen
  BY <1>6 DEF Spawn, CloseListen, Loops
<1>7. ASSUME NEW t \in Conns, Thread(t) PROVE Loops'
  BY <1>0, <1>7, LoopsThread
<1>8. ASSUME NEW c \in Conns, Arrive(c) PROVE Loops'
  <2>1. UNCHANGED <<m_client_sd, slot, tpc, mainVars>>
    BY <1>8 DEF Arrive, slotVars, threadVars
  <2>2. ASSUME NEW t \in Conns, Stillborn(t)' PROVE Stillborn(t)
    BY <1>0, <1>8, <2>1, <2>2 DEF Arrive, Stillborn, TypeOK, NetTypes
  <2> QED
    BY <1>0, <2>1, <2>2 DEF Loops, mainVars
<1> QED
  BY <1>1, <1>2, <1>3, <1>4, <1>5, <1>6, <1>7, <1>8, StepCases

-----------------------------------------------------------------------------
(* What a step does to the clients m_clients should count. *)
LEMMA CountedKept ==
    ASSUME UNCHANGED m_client_sd, \A t \in Conns : t \in Leaving <=> t \in Leaving'
    PROVE  Used' = Used /\ Leaving' = Leaving
  BY DEF Used, Leaving

LEMMA CountedThread ==
    ASSUME NEW t \in Conns, TypeOK, Owners, Thread(t)
    PROVE  /\ UNCHANGED <<mainVars, listening, opens>>
           /\ \/ Counted' = Counted /\ UNCHANGED m_clients
              \/ /\ tpc[t] = "decWrite" /\ tpc'[t] = "exited"
                 /\ m_clients' = treg[t] - 1 /\ Counted' = Counted - 1
<1>0. /\ UNCHANGED <<mainVars, listening, opens>>
      /\ tpc'[t] \in ThreadPC /\ \A u \in Conns : u # t => tpc'[u] = tpc[u]
  BY DEF Thread, Disconnect, CloseFd, ClearSlot, DecRead, DecWrite, Goto, appVars,
     TypeOK, ThreadTypes, ThreadPC
<1>1. CASE ClearSlot(t)
  <2>1. /\ m_client_sd[slot[t]] = t /\ slot[t] \in Slots
        /\ m_client_sd'[slot[t]] = INVALID_SOCKET
        /\ \A s \in Slots : s # slot[t] => m_client_sd'[s] = m_client_sd[s]
        /\ tpc[t] = "clear" /\ tpc'[t] = "dec"
    BY <1>1, ClearOwn DEF TypeOK, ThreadTypes
  <2>2. Used' = Used \ {slot[t]} /\ slot[t] \in Used
    BY <2>1, ConstAssumption DEF Used
  <2>3. Leaving' = Leaving \cup {t} /\ t \notin Leaving
    BY <1>0, <2>1 DEF Leaving
  <2>4. Cardinality(Used') = Cardinality(Used) - 1
    BY <2>2, Finite, FS_RemoveElement
  <2>5. Cardinality(Leaving') = Cardinality(Leaving) + 1
    BY <2>3, Finite, FS_AddElement
  <2>6. UNCHANGED m_clients
    BY <1>1 DEF ClearSlot
  <2> QED
    BY <1>0, <2>4, <2>5, <2>6, Finite DEF Counted
<1>2. CASE DecWrite(t)
  <2>1. /\ tpc[t] = "decWrite" /\ tpc'[t] = "exited" /\ m_clients' = treg[t] - 1
        /\ UNCHANGED m_client_sd
    BY <1>2 DEF DecWrite, Decremented, Goto, TypeOK, ThreadTypes
  <2>2. Leaving' = Leaving \ {t} /\ t \in Leaving
    BY <1>0, <2>1 DEF Leaving
  <2>3. Cardinality(Leaving') = Cardinality(Leaving) - 1
    BY <2>2, Finite, FS_RemoveElement
  <2>4. Used' = Used
    BY <2>1 DEF Used
  <2> QED
    BY <1>0, <2>1, <2>3, <2>4, Finite DEF Counted
<1>3. CASE Disconnect(t) \/ CloseFd(t) \/ DecRead(t)
  <2>1. UNCHANGED <<m_clients, m_client_sd>>
    BY <1>3 DEF Disconnect, CloseFd, DecRead
  <2>2. t \in Leaving <=> t \in Leaving'
    BY <1>3 DEF Disconnect, CloseFd, DecRead, Goto, Leaving, TypeOK, ThreadTypes
  <2>3. \A u \in Conns : u \in Leaving <=> u \in Leaving'
    BY <1>0, <2>2 DEF Leaving
  <2> QED
    BY <1>0, <2>1, <2>3, CountedKept DEF Counted
<1> QED
  BY <1>1, <1>2, <1>3 DEF Thread

LEMMA CountedAccept ==
    ASSUME TypeOK, BacklogPending, SlotFacts, Accept
    PROVE  /\ pc = "accept" /\ pc' = "spawn" /\ UNCHANGED <<m_clients, listening, opens>>
           /\ \/ Counted' = Counted + 1
              \/ Counted' = Counted /\ faults' # faults
<1>1. /\ idx \in Slots /\ m_client_sd[idx] = INVALID_SOCKET /\ fresh' \in Conns
      /\ pc = "accept" /\ pc' = "spawn" /\ UNCHANGED tpc
  BY AcceptFree
<1>2. Leaving' = Leaving
  BY <1>1 DEF Leaving
<1>3. UNCHANGED <<m_clients, listening, opens>>
  BY DEF Accept, CountKept, appVars
<1>4. CASE m_client_sd' = StoredAt(Head(backlog))
  <2>1. m_client_sd' = [m_client_sd EXCEPT ![idx] = fresh']
    BY <1>1, <1>4 DEF StoredAt, TypeOK, SlotTypes, Accept
  <2>2. Used' = Used \cup {idx} /\ idx \notin Used
    BY <1>1, <2>1, ConstAssumption DEF Used, TypeOK, SlotTypes
  <2>3. Cardinality(Used') = Cardinality(Used) + 1
    BY <2>2, Finite, FS_AddElement
  <2> QED
    BY <1>1, <1>2, <1>3, <2>3, Finite DEF Counted
<1>5. CASE Fault /\ m_client_sd' = StoredAt(INVALID_SOCKET)
  <2>1. m_client_sd' = m_client_sd
    BY <1>1, <1>5 DEF StoredAt, TypeOK, SlotTypes
  <2>2. Used' = Used
    BY <2>1 DEF Used
  <2>3. faults' # faults
    BY <1>5 DEF Fault, TypeOK, AppTypes
  <2> QED
    BY <1>1, <1>2, <1>3, <2>2, <2>3 DEF Counted
<1> QED
  BY <1>4, <1>5 DEF Accept

(* Every other step keeps them. *)
LEMMA CountedOther ==
    ASSUME TypeOK, MainInv, SlotFacts,
           \/ QuietMain \/ QuietOther \/ Wait \/ WaitAgain \/ Spawn \/ CloseListen
           \/ \E c \in Conns : Arrive(c)
    PROVE  Counted' = Counted
<1> SUFFICES Used' = Used /\ Leaving' = Leaving
  BY DEF Counted
<1>1. CASE QuietMain \/ QuietOther
  BY <1>1, QuietSteps DEF Quiet, slotVars, Used, Leaving
<1>2. CASE Wait \/ WaitAgain
  BY <1>2, WaitSteps DEF Reaped, Used, Leaving
<1>3. CASE Spawn
  <2>1. UNCHANGED m_client_sd
    BY <1>3 DEF Spawn
  <2>2. \A t \in Conns : t \in Leaving <=> t \in Leaving'
    BY <1>3, SpawnFree DEF Leaving, TypeOK, ThreadTypes
  <2> QED
    BY <2>1, <2>2, CountedKept
<1>4. CASE CloseListen
  BY <1>4 DEF CloseListen, slotVars, threadVars, Used, Leaving
<1>5. ASSUME NEW c \in Conns, Arrive(c) PROVE Used' = Used /\ Leaving' = Leaving
  BY <1>5 DEF Arrive, slotVars, threadVars, Used, Leaving
<1> QED
  BY <1>1, <1>2, <1>3, <1>4, <1>5

-----------------------------------------------------------------------------
DriftFact == m_clients \in Int => Drift = m_clients + Admitted - Counted /\ Drift \in Int
LEMMA DriftIs == DriftFact
  BY Finite DEF DriftFact, Drift, Counted, Admitted

(* What m_clients is off by changes in four ways only. *)
LEMMA DriftStep ==
    ASSUME IInv, SInv, ~behind, listening, [Next]_vars
    PROVE  \/ Drift' = Drift
           \/ AcceptFailed /\ Drift' = Drift + 1
           \/ LostByMain /\ Drift' >= 0
           \/ \E t \in Conns : LostUpdate(t) /\ Drift' = Drift + treg[t] - m_clients
<1>0. /\ TypeOK /\ MainInv /\ BacklogPending /\ Behind /\ SlotFacts /\ Owners
      /\ m_clients \in Int /\ reg \in Int /\ treg \in [Conns -> Int]
  BY DEF IInv, SInv, SlotInv, SlotFacts, TypeOK, MainTypes, ThreadTypes
<1>1. /\ Drift = m_clients + Admitted - Counted
      /\ Counted \in Nat /\ Admitted \in {0, 1}
  BY <1>0, DriftIs, Finite DEF DriftFact, Counted, Admitted
<1>2. m_clients' \in Int
  BY TypeStep DEF Types
<1>3. Drift' = m_clients' + Admitted' - Counted'
  <2>1. DriftFact'
    BY DriftIs, PTL
  <2> QED
    BY <1>2, <2>1 DEF DriftFact
<1>4. CASE Accept
  <2>1. /\ pc = "accept" /\ pc' = "spawn" /\ UNCHANGED m_clients
        /\ \/ Counted' = Counted + 1
           \/ Counted' = Counted /\ faults' # faults
    BY <1>0, <1>4, CountedAccept
  <2>2. Admitted = 0 /\ Admitted' = 1
    BY <2>1 DEF Admitted
  <2> QED
    BY <1>0, <1>1, <1>3, <2>1, <2>2 DEF AcceptFailed
<1>5. CASE IncWrite
  <2>1. /\ pc = "incWrite" /\ pc' = "app" /\ m_clients' = reg + 1
    BY <1>5 DEF IncWrite, Incremented
  <2>2. Counted' = Counted
    BY <1>0, <1>5, CountedOther DEF QuietMain
  <2>3. Admitted = 1 /\ Admitted' = 0
    BY <2>1 DEF Admitted
  <2>4. reg + 1 >= Counted
    BY <1>0, <2>1 DEF Behind
  <2> QED
    BY <1>0, <1>1, <1>3, <2>1, <2>2, <2>3, <2>4 DEF LostByMain
<1>6. ASSUME NEW t \in Conns, Thread(t)
      PROVE  \/ Drift' = Drift
             \/ LostUpdate(t) /\ Drift' = Drift + treg[t] - m_clients
  <2>1. /\ UNCHANGED mainVars
        /\ \/ Counted' = Counted /\ UNCHANGED m_clients
           \/ /\ tpc[t] = "decWrite" /\ tpc'[t] = "exited"
              /\ m_clients' = treg[t] - 1 /\ Counted' = Counted - 1
    BY <1>0, <1>6, CountedThread
  <2>2. Admitted' = Admitted
    BY <2>1 DEF Admitted, mainVars
  <2>3. treg[t] \in Int
    BY <1>0
  <2> QED
    BY <1>0, <1>1, <1>3, <2>1, <2>2, <2>3 DEF LostUpdate
<1>7. ASSUME ~Accept, ~IncWrite, \A t \in Conns : ~Thread(t)
      PROVE  Drift' = Drift
  <2>1. \/ QuietMain \/ QuietOther \/ Wait \/ WaitAgain \/ Spawn \/ CloseListen
        \/ \E c \in Conns : Arrive(c)
    BY <1>7, StepCases
  <2>2. Counted' = Counted
    BY <1>0, <2>1, CountedOther
  <2>3. m_clients' = m_clients /\ Admitted' = Admitted
    <3>1. CASE QuietMain
      BY <1>7, <3>1 DEF QuietMain, Open, Enter, WaitLoop, SelectTimeout, Refuse,
         SelectReady, SelectError, Sweep, CloseSweep, SweepStep, Pick, Scan, IncRead,
         CloseEnter, MainOnly, state, mainVars, Admitted
    <3>2. CASE QuietOther
      BY <3>2, OtherSteps DEF mainVars, Admitted
    <3>3. CASE Wait \/ WaitAgain
      BY <1>0, <3>3, WaitSteps DEF Admitted, Wait, WaitAgain, Join, CloseJoin,
         WaitStep, Rejoin, CloseRejoin, RejoinStep
    <3>4. CASE Spawn \/ CloseListen
      BY <3>4 DEF Admitted, Spawn, CloseListen, CountKept
    <3>5. ASSUME NEW c \in Conns, Arrive(c)
          PROVE  m_clients' = m_clients /\ Admitted' = Admitted
      BY <3>5 DEF Arrive, mainVars, Admitted
    <3> QED
      BY <2>1, <3>1, <3>2, <3>3, <3>4, <3>5
  <2> QED
    BY <1>1, <1>3, <2>2, <2>3
<1> QED
  BY <1>4, <1>5, <1>6, <1>7

(* The history variable. *)
LEMMA BehindSteps ==
    ASSUME [Next]_vars
    PROVE  \/ UNCHANGED vars
           \/ behind' = (behind \/ (listening' /\ Drift' < 0))
  BY DEF Next, Tracked, Undefined

LEMMA BehindStep ==
    ASSUME IInv, SInv, [Next]_vars
    PROVE  Behind'
<1>0. TypeOK /\ MainInv /\ BacklogPending /\ Behind
  BY DEF IInv, SInv
<1>1. (pc \notin {"app", "undefined"} => listening)'
  <2>1. CASE QuietMain
    BY <1>0, <2>1 DEF Behind, QuietMain, Open, Enter, WaitLoop, SelectTimeout, Refuse,
       SelectReady, SelectError, Sweep, CloseSweep, SweepStep, Pick, Scan, IncRead,
       IncWrite, CloseEnter, MainOnly, state, mainVars, appVars
  <2>2. CASE QuietOther
    BY <1>0, <2>2, OtherSteps DEF Behind, mainVars
  <2>3. CASE Wait \/ WaitAgain
    BY <1>0, <2>3, WaitSteps DEF Behind, Wait, WaitAgain, Join, CloseJoin,
       WaitStep, Rejoin, CloseRejoin, RejoinStep
  <2>4. CASE Accept \/ Spawn \/ CloseListen
    BY <1>0, <2>4 DEF Behind, Accept, Spawn, CloseListen, CountKept, appVars
  <2>5. ASSUME NEW t \in Conns, Thread(t) PROVE UNCHANGED <<pc, listening>>
    BY <2>5 DEF Thread, Disconnect, CloseFd, ClearSlot, DecRead, DecWrite, Goto,
       mainVars, appVars
  <2>6. ASSUME NEW c \in Conns, Arrive(c) PROVE UNCHANGED <<pc, listening>>
    BY <2>6 DEF Arrive, mainVars, appVars
  <2> QED
    BY <1>0, <2>1, <2>2, <2>3, <2>4, <2>5, <2>6, StepCases DEF Behind
<1>2. ASSUME ~behind' PROVE ~behind
  BY <1>2, BehindSteps DEF vars
<1>3. (~behind /\ listening => Drift >= 0)'
  <2> SUFFICES ASSUME ~behind', listening' PROVE Drift' >= 0
    OBVIOUS
  <2>1. m_clients' \in Int
    BY TypeStep DEF Types
  <2>2. Drift' \in Int
    <3>1. DriftFact'
      BY DriftIs, PTL
    <3> QED
      BY <2>1, <3>1 DEF DriftFact
  <2>3. CASE UNCHANGED vars
    <3>1. Drift' = Drift
      BY <2>3 DEF vars, state, mainVars, slotVars, threadVars, Drift, Admitted, Leaving,
         Used
    <3> QED
      BY <1>0, <1>2, <2>3, <3>1 DEF Behind, vars, state, appVars
  <2>4. CASE behind' = (behind \/ (listening' /\ Drift' < 0))
    <3>1. ~(Drift' < 0)
      BY <2>4
    <3> QED
      BY <2>2, <3>1
  <2> QED
    BY <2>3, <2>4, BehindSteps
<1>4. (~behind /\ pc = "incWrite" => reg + 1 >= Counted)'
  <2> SUFFICES ASSUME ~behind', pc' = "incWrite" PROVE reg' + 1 >= Counted'
    OBVIOUS
  <2>0. /\ ~behind /\ SlotFacts /\ Owners /\ reg \in Int /\ m_clients \in Int
        /\ Counted \in Nat
    BY <1>2, Finite DEF SInv, SlotInv, SlotFacts, IInv, TypeOK, MainTypes, Counted
  <2>1. CASE IncRead
    <3>1. pc = "inc" /\ reg' = m_clients
      BY <2>1 DEF IncRead
    <3>2. Drift >= 0 /\ Admitted = 1
      BY <1>0, <2>0, <3>1 DEF Behind, Admitted
    <3>3. Drift = m_clients + Admitted - Counted
      BY <2>0, DriftIs DEF DriftFact
    <3>4. Counted' = Counted
      BY <1>0, <2>0, <2>1, CountedOther DEF QuietMain
    <3> QED
      BY <2>0, <3>1, <3>2, <3>3, <3>4
  <2>2. ASSUME NEW t \in Conns, Thread(t) PROVE reg' + 1 >= Counted'
    <3>1. UNCHANGED mainVars /\ Counted' \in {Counted, Counted - 1}
      BY <1>0, <2>0, <2>2, CountedThread
    <3>2. pc = "incWrite" /\ reg' = reg
      BY <3>1 DEF mainVars
    <3> QED
      BY <1>0, <2>0, <3>1, <3>2 DEF Behind
  <2>3. CASE ~IncRead /\ \A t \in Conns : ~Thread(t)
    <3>1. pc = "incWrite" /\ reg' = reg
      <4>1. CASE QuietMain
        BY <2>3, <4>1 DEF QuietMain, Open, Enter, WaitLoop, SelectTimeout, Refuse,
           SelectReady, SelectError, Sweep, CloseSweep, SweepStep, Pick, Scan,
           IncWrite, CloseEnter, state, mainVars
      <4>2. CASE QuietOther
        BY <4>2, OtherSteps DEF mainVars
      <4>3. CASE Wait \/ WaitAgain \/ Accept \/ Spawn \/ CloseListen
        BY <4>3 DEF Wait, WaitAgain, Join, CloseJoin, WaitStep, Rejoin, CloseRejoin,
           RejoinStep, Accept, Spawn, CloseListen
      <4>4. ASSUME NEW c \in Conns, Arrive(c) PROVE UNCHANGED <<pc, reg>>
        BY <4>4 DEF Arrive, mainVars
      <4> QED
        BY <2>3, <4>1, <4>2, <4>3, <4>4, StepCases
    <3>2. ~Accept
      BY <3>1 DEF Accept
    <3>3. Counted' = Counted
      BY <1>0, <2>0, <2>3, <3>2, CountedOther, StepCases
    <3> QED
      BY <1>0, <2>0, <3>1, <3>3 DEF Behind
  <2> QED
    BY <2>1, <2>2, <2>3
<1> QED
  BY <1>1, <1>3, <1>4 DEF Behind

-----------------------------------------------------------------------------
LEMMA SlotsInductive == Spec => [](IInv /\ SInv)
<1>1. Init => IInv /\ SInv
  BY InitIInv, InitSInv
<1>2. ASSUME IInv, SInv, [Next]_vars PROVE IInv' /\ SInv'
  <2>1. TypeOK /\ MainInv /\ BacklogPending
    BY <1>2 DEF IInv, SInv
  <2>2. IInv'
    BY <1>2, TypeStep, BehindType, CountStep DEF IInv, TypeOK, Types
  <2>3. BacklogPending' /\ Behind'
    BY <1>2, <2>1, BacklogStep, BehindStep
  <2>4. ASSUME ~behind' PROVE SlotFacts'
    <3>1. ~behind
      BY <1>2, <2>4, BehindSteps DEF vars
    <3>2. SlotFacts
      BY <1>2, <3>1 DEF SInv, SlotInv
    <3> QED
      BY <1>2, <2>1, <3>1, <3>2, OwnersStep, PlacedStep, FreshStep, LoopsStep DEF SlotFacts
  <2> QED
    BY <2>2, <2>3, <2>4 DEF SInv, SlotInv
<1> QED
  BY <1>1, <1>2, PTL DEF Spec

(* connect2() never admits past MAX_CLIENTS and, while m_clients has not     *)
(* missed a client, no index is outside the arrays.                          *)
THEOREM NeverOverflows == Spec => []NoOverflow
<1>1. IInv /\ SInv => NoOverflow
  BY DEF IInv, CountInv, SInv, SlotInv, SlotFacts, Loops, NoOverflow
<1> QED
  BY <1>1, SlotsInductive, PTL

(* While m_clients has not missed a client, a sweep finds every service that *)
(* has not given its slot back.                                              *)
THEOREM ServicesAreFound == Spec => []ServingFound
<1>1. IInv /\ SInv => ServingFound
  BY DEF SInv, SlotInv, SlotFacts, Owners, Owner, Serving, ServingFound
<1> QED
  BY <1>1, SlotsInductive, PTL

(* Nor does accept() overwrite the slot of a client then, ... *)
THEOREM SlotsAreNotOverwritten == Spec => NoSlotOverwritten
<1> DEFINE FreeOnly == ~behind => \A s \in Slots :
                           \/ m_client_sd[s] = INVALID_SOCKET
                           \/ m_client_sd'[s] \in {m_client_sd[s], INVALID_SOCKET}
<1>1. IInv /\ SInv /\ [Next]_vars => [FreeOnly]_vars
  <2> SUFFICES ASSUME IInv, SInv, [Next]_vars, ~behind, NEW s \in Slots
               PROVE  \/ m_client_sd[s] = INVALID_SOCKET
                      \/ m_client_sd'[s] \in {m_client_sd[s], INVALID_SOCKET}
    OBVIOUS
  <2>0. TypeOK /\ MainInv /\ BacklogPending /\ SlotFacts /\ Owners
    BY DEF IInv, SInv, SlotInv, SlotFacts
  <2>1. CASE QuietMain \/ QuietOther
    BY <2>1, QuietSteps DEF Quiet, slotVars
  <2>2. CASE Wait \/ WaitAgain
    BY <2>0, <2>2, WaitSteps
  <2>3. CASE Accept
    BY <2>0, <2>3, AcceptFree DEF TypeOK, SlotTypes
  <2>4. CASE Spawn \/ CloseListen
    BY <2>4 DEF Spawn, CloseListen, slotVars
  <2>5. ASSUME NEW t \in Conns, Thread(t)
        PROVE  m_client_sd'[s] \in {m_client_sd[s], INVALID_SOCKET}
    <3>1. CASE ClearSlot(t)
      BY <2>0, <3>1 DEF ClearSlot, TypeOK, SlotTypes
    <3>2. CASE ~ClearSlot(t)
      BY <2>5, <3>2 DEF Thread, Disconnect, CloseFd, DecRead, DecWrite
    <3> QED
      BY <3>1, <3>2
  <2>6. ASSUME NEW c \in Conns, Arrive(c) PROVE m_client_sd' = m_client_sd
    BY <2>6 DEF Arrive, slotVars
  <2> QED
    BY <2>1, <2>2, <2>3, <2>4, <2>5, <2>6, StepCases
<1> QED
  BY <1>1, SlotsInductive, PTL DEF Spec, NoSlotOverwritten

(* ... and a service thread closes the connection it was started for. *)
THEOREM ServicesCloseTheirOwn == Spec => ClosesOwnClient
<1> DEFINE Own(t) == tpc[t] = "close" /\ tpc'[t] = "clear" /\ ~behind
                            => net'[t] = "closed" /\ net[t] = "open"
           OwnAll == \A t \in Conns : Own(t)
<1>1. IInv /\ SInv /\ [Next]_vars => [OwnAll]_vars
  <2> SUFFICES ASSUME IInv, SInv, [Next]_vars, NEW t \in Conns,
                      tpc[t] = "close", tpc'[t] = "clear", ~behind
               PROVE  net'[t] = "closed" /\ net[t] = "open"
    OBVIOUS
  <2>0. TypeOK /\ MainInv /\ SlotFacts /\ Owners
    BY DEF IInv, SInv, SlotInv, SlotFacts
  <2>1. ~(QuietMain \/ QuietOther \/ Wait \/ WaitAgain)
    BY <2>0, QuietSteps, WaitSteps DEF Quiet, Reaped
  <2>2. ~Accept /\ ~CloseListen /\ \A c \in Conns : ~Arrive(c)
    BY DEF Accept, CloseListen, Arrive, threadVars
  <2>3. ~Spawn
    BY <2>0, SpawnFree DEF TypeOK, ThreadTypes
  <2>4. ASSUME NEW u \in Conns, Thread(u) PROVE CloseFd(t)
    <3>1. tpc \in [Conns -> ThreadPC]
      BY <2>0 DEF TypeOK, ThreadTypes
    <3>2. \E where \in ThreadPC : tpc' = [tpc EXCEPT ![u] = where]
      BY <2>4 DEF Thread, Disconnect, CloseFd, ClearSlot, DecRead, DecWrite, Goto,
         ThreadPC
    <3>3. u = t
      BY <3>1, <3>2
    <3> QED
      BY <2>4, <3>3 DEF Thread, Disconnect, ClearSlot, DecRead, DecWrite
  <2>5. CloseFd(t)
    BY <2>1, <2>2, <2>3, <2>4, StepCases
  <2> QED
    BY <2>0, <2>5, CloseOwn
<1> QED
  BY <1>1, SlotsInductive, PTL DEF Spec, ClosesOwnClient

(* m_clients drifts away from the slots in use only by a lost update, by     *)
(* open() and by a failing accept(), and below them only by a lost increment *)
(* and by open().                                                            *)
THEOREM DriftIsExplained == Spec => DriftHasCause
<1> DEFINE Drifts == Drift' # Drift =>
               \/ behind \/ ~listening \/ Reopened \/ AcceptFailed
               \/ LostByMain \/ \E t \in Conns : LostUpdate(t)
           Falls == behind' # behind =>
               \/ Reopened /\ (Used # {} \/ Leaving # {})
               \/ \E t \in Conns : LostIncrement(t)
<1>1. IInv /\ SInv /\ [Next]_vars => Drifts
  BY DriftStep
<1>2. ASSUME IInv, SInv, [Next]_vars, behind' # behind PROVE Falls
  <2>0. TypeOK /\ Behind /\ behind' \in BOOLEAN
    BY <1>2, BehindType DEF IInv, SInv
  <2>1. ~behind /\ listening' /\ Drift' < 0
    BY <1>2, <2>0, BehindSteps DEF vars, TypeOK
  <2>2. Drift \in Int /\ Drift' \in Int /\ m_clients \in Int
        /\ treg \in [Conns -> Int]
    <3>1. m_clients' \in Int
      BY <1>2, TypeStep DEF Types
    <3>2. DriftFact'
      BY DriftIs, PTL
    <3> QED
      BY <2>0, <3>1, <3>2, DriftIs DEF DriftFact, TypeOK, ThreadTypes
  <2>3. CASE listening
    <3>1. Drift >= 0
      BY <2>0, <2>1, <2>3 DEF Behind
    <3>2. PICK t \in Conns : LostUpdate(t) /\ Drift' = Drift + treg[t] - m_clients
      BY <1>2, <2>1, <2>2, <2>3, <3>1, DriftStep
    <3>3. treg[t] \in Int
      BY <2>2
    <3>4. treg[t] < m_clients
      BY <2>1, <2>2, <3>1, <3>2, <3>3
    <3> QED
      BY <3>2, <3>4 DEF LostIncrement
  <2>4. CASE ~listening
    <3>1. pc \in {"app", "undefined"}
      BY <2>0, <2>4 DEF Behind
    <3>2. Open
      <4>1. CASE QuietMain
        BY <2>1, <2>4, <3>1, <4>1 DEF QuietMain, Enter, WaitLoop, SelectTimeout,
           Refuse, SelectReady, SelectError, Sweep, CloseSweep, SweepStep, Pick,
           Scan, IncRead, IncWrite, CloseEnter
      <4>2. CASE QuietOther
        BY <2>1, <2>4, <4>2, OtherSteps
      <4>3. CASE Wait \/ WaitAgain \/ Accept \/ Spawn \/ CloseListen
        BY <3>1, <4>3 DEF Wait, WaitAgain, Join, CloseJoin, WaitStep, Rejoin,
           CloseRejoin, RejoinStep, Accept, Spawn, CloseListen
      <4>4. ASSUME NEW t \in Conns, Thread(t) PROVE UNCHANGED listening
        BY <4>4 DEF Thread, Disconnect, CloseFd, ClearSlot, DecRead, DecWrite, Goto,
           appVars
      <4>5. ASSUME NEW c \in Conns, Arrive(c) PROVE UNCHANGED listening
        BY <4>5 DEF Arrive, appVars
      <4> QED
        BY <1>2, <2>1, <2>4, <4>1, <4>2, <4>3, <4>4, <4>5, StepCases
    <3>3. /\ m_clients' = 0 /\ UNCHANGED <<pc, tpc, m_client_sd>>
          /\ opens' = opens + 1
      BY <2>1, <2>4, <3>2 DEF Open, mainVars, threadVars, slotVars
    <3>4. Drift' = 0 + 0 - Cardinality(Leaving) - Cardinality(Used)
      BY <3>2, <3>3 DEF Open, Drift, Admitted, Leaving, Used
    <3>5. Used # {} \/ Leaving # {}
      BY <2>1, <3>4, FS_EmptySet
    <3>6. Reopened
      BY <2>0, <2>1, <3>3 DEF Reopened, TypeOK, AppTypes
    <3> QED
      BY <3>5, <3>6
  <2> QED
    BY <2>3, <2>4
<1>3. IInv /\ SInv /\ [Next]_vars => [Drifts /\ Falls]_vars
  BY <1>1, <1>2
<1> QED
  BY <1>3, SlotsInductive, PTL DEF Spec, DriftHasCause

-----------------------------------------------------------------------------
(* CTcpServ implements the pool of service places of module SlotPool. *)
Active == {c \in Conns : net[c] = "open"}
Closed == {c \in Conns : net[c] = "closed"}

(* When main is about to accept, fewer than MAX_CLIENTS are in service, as   *)
(* long as m_clients has not missed one: each is in a slot of its own, and   *)
(* one slot is free.                                                         *)
LEMMA RoomAtAccept ==
    ASSUME TypeOK, SlotFacts, pc = "accept"
    PROVE  Cardinality(Active) < MAX_CLIENTS
<1> DEFINE place == [c \in Active |-> CHOOSE s \in Slots : m_client_sd[s] = c]
<1>1. \A c \in Active : place[c] \in Slots /\ m_client_sd[place[c]] = c
  BY DEF SlotFacts, Placed, Active
<1>2. \A c \in Active : place[c] \in Used
  BY <1>1, ConstAssumption DEF Used, Active
<1>3. place \in Injection(Active, Used)
  <2> HIDE DEF place
  <2>1. place \in [Active -> Used]
    BY <1>2 DEF place
  <2>2. \A b, c \in Active : place[b] = place[c] => b = c
    BY <1>1
  <2> QED
    BY <2>1, <2>2 DEF Injection, IsInjective
<1>4. IsFiniteSet(Active) /\ Cardinality(Active) <= Cardinality(Used)
  BY <1>3, Finite, FS_Injection
<1>5. idx \in Slots /\ idx \notin Used /\ Used \subseteq Slots
  BY DEF SlotFacts, Loops, Used
<1>6. Cardinality(Used) < Cardinality(Slots)
  <2>1. Used \in SUBSET Slots /\ Used # Slots
    BY <1>5
  <2>2. /\ Cardinality(Used) <= Cardinality(Slots)
        /\ Cardinality(Used) = Cardinality(Slots) => Used = Slots
    BY <2>1, Finite, FS_Subset
  <2> QED
    BY <2>1, <2>2, Finite, ConstAssumption
<1> QED
  BY <1>4, <1>6, Finite, FS_CardinalityType, ConstAssumption

LEMMA PoolStep ==
    ASSUME IInv, SInv, [Next]_vars
    PROVE  [Pool!PoolNext]_(Pool!poolVars)
<1>0. TypeOK /\ BacklogPending /\ net \in [Conns -> {"idle", "pending", "open",
                                                    "closed", "refused"}]
  BY DEF IInv, SInv, TypeOK, NetTypes
<1>B. behind' \in {behind, TRUE}
  <2>1. behind' \in BOOLEAN /\ behind \in BOOLEAN
    BY <1>0, BehindType DEF TypeOK
  <2> QED
    BY <2>1, BehindSteps DEF vars
<1>1. ASSUME UNCHANGED <<net, backlog>> PROVE Pool!PoolNext
  BY <1>1, <1>B DEF Pool!PoolNext, Pool!Idle, Active, Closed
<1>2. CASE QuietMain \/ QuietOther \/ Wait \/ WaitAgain \/ Spawn
  BY <1>0, <1>1, <1>2, QuietSteps, WaitSteps DEF Quiet, netVars, Spawn
<1>3. CASE Accept
  <2> DEFINE h == Head(backlog)
  <2>1. /\ backlog # <<>> /\ backlog' = Tail(backlog) /\ pc = "accept"
        /\ h \in Conns /\ net[h] = "pending"
        /\ \/ net' = [net EXCEPT ![h] = "open"]
           \/ net' = [net EXCEPT ![h] = "refused"]
    BY <1>0, <1>3, HeadPending DEF Accept
  <2> HIDE DEF h
  <2>2. CASE net' = [net EXCEPT ![h] = "open"]
    <3>1. \A c \in Conns : net'[c] = IF c = h THEN "open" ELSE net[c]
      BY <1>0, <2>1, <2>2
    <3>2. Active' = Active \cup {h} /\ Closed' = Closed
      BY <2>1, <3>1 DEF Active, Closed
    <3>3. Cardinality(Active) < MAX_CLIENTS \/ behind
      BY <1>0, <2>1, RoomAtAccept DEF SInv, SlotInv
    <3>4. Pool!Cardinality(Active) = Cardinality(Active)
      BY DEF Pool!Cardinality, Cardinality
    <3>5. Pool!Admit
      BY <2>1, <3>2, <3>3, <3>4 DEF Pool!Admit, Active, Closed, h
    <3> QED
      BY <1>B, <3>5 DEF Pool!PoolNext
  <2>3. CASE net' = [net EXCEPT ![h] = "refused"]
    <3>1. \A c \in Conns : net'[c] = IF c = h THEN "refused" ELSE net[c]
      BY <1>0, <2>1, <2>3
    <3>2. Active' = Active /\ Closed' = Closed
      BY <2>1, <3>1 DEF Active, Closed
    <3>3. Pool!TurnAway
      BY <2>1, <3>2 DEF Pool!TurnAway, Active, Closed
    <3> QED
      BY <1>B, <3>3 DEF Pool!PoolNext
  <2> QED
    BY <2>1, <2>2, <2>3
<1>4. CASE CloseListen
  <2>1. backlog' = <<>> /\ Active' = Active /\ Closed' = Closed
    BY <1>0, <1>4 DEF CloseListen, Active, Closed
  <2>2. Pool!Shutdown
    BY <2>1 DEF Pool!Shutdown, Active, Closed
  <2> QED
    BY <1>B, <2>2 DEF Pool!PoolNext
<1>5. ASSUME NEW t \in Conns, Thread(t)
      PROVE  Pool!PoolNext
  <2>1. CASE UNCHANGED net
    <3>1. UNCHANGED backlog
      BY <1>5 DEF Thread, Disconnect, CloseFd, ClearSlot, DecRead, DecWrite, Goto
    <3> QED
      BY <1>1, <2>1, <3>1
  <2>2. CASE ~UNCHANGED net
    <3>1. CloseFd(t)
      BY <1>5, <2>2 DEF Thread, Disconnect, ClearSlot, DecRead, DecWrite
    <3>2. PICK c \in Conns : net[c] = "open" /\ net' = [net EXCEPT ![c] = "closed"]
      BY <2>2, <3>1 DEF CloseFd
    <3>3. UNCHANGED backlog
      BY <3>1 DEF CloseFd, Goto
    <3>4. \A u \in Conns : net'[u] = IF u = c THEN "closed" ELSE net[u]
      BY <1>0, <3>2
    <3>5. /\ c \in Active /\ Active' = Active \ {c}
          /\ Closed' = Closed \cup {c}
      BY <3>2, <3>4 DEF Active, Closed
    <3>6. Pool!Leave(c)
      BY <3>3, <3>5 DEF Pool!Leave, Active, Closed
    <3> QED
      BY <1>B, <3>6 DEF Pool!PoolNext
  <2> QED
    BY <2>1, <2>2
<1>6. ASSUME NEW c \in Conns, Arrive(c)
      PROVE  Pool!PoolNext
  <2>1. /\ net[c] = "idle" /\ net' = [net EXCEPT ![c] = "pending"]
        /\ Len(backlog) < MAX_CLIENTS /\ backlog' = Append(backlog, c)
    BY <1>6 DEF Arrive
  <2>2. Active' = Active /\ Closed' = Closed /\ c \notin Active \cup Closed
    BY <1>0, <2>1 DEF Active, Closed
  <2>3. c \notin Pool!Waiting
    BY <1>0, <2>1 DEF Pool!Waiting, BacklogPending
  <2>4. Pool!Arrive(c)
    BY <2>1, <2>2, <2>3 DEF Pool!Arrive, Active, Closed
  <2> QED
    BY <1>B, <2>4 DEF Pool!PoolNext
<1> QED
  BY <1>2, <1>3, <1>4, <1>5, <1>6, StepCases

(* The detailed server implements the pool: its initial states are initial   *)
(* states of the pool and each of its steps is a step of the pool.           *)
THEOREM ImplementsPool == Spec => PoolSpec
<1>1. Init => Pool!PoolInit
  BY DEF Init, Pool!PoolInit
<1>2. IInv /\ SInv /\ [Next]_vars => [Pool!PoolNext]_(Pool!poolVars)
  BY PoolStep
<1> QED
  BY <1>1, <1>2, SlotsInductive, PTL DEF Spec, PoolSpec, Pool!PoolSpec
=============================================================================
