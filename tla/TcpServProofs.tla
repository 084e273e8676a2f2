--------------------------- MODULE TcpServProofs ---------------------------
(***************************************************************************)
(* Proofs about TcpServ for any number of clients, slots, thread ids, calls *)
(* of open() and failing system calls, and for every interleaving: types,   *)
(* and the bound on m_clients.                                              *)
(***************************************************************************)
EXTENDS TcpServ, TLAPS

\* main is inside connect2(), between its test of m_clients and its return.
Admitting == pc \in {"loop", "select", "sweep", "join", "rejoin", "scan", "accept",
                     "spawn", "inc", "incWrite"}

(* What main knows at each of its steps. *)
MainInv ==
    /\ Joining => i \in Slots
    /\ pc = "spawn" => idx \in Slots /\ fresh \in Conns

(* Why m_clients cannot overshoot.  While main is inside connect2() there is *)
(* room for one more, and it stays so: only service threads write m_clients  *)
(* meanwhile, and each writes at least one less than some value it read.     *)
CountInv ==
    /\ listening => m_clients <= MAX_CLIENTS
    /\ (\E t \in Conns : tpc[t] # "none") => m_clients <= MAX_CLIENTS
    /\ \A t \in Conns : tpc[t] = "decWrite" => treg[t] <= MAX_CLIENTS
    /\ Admitting => m_clients < MAX_CLIENTS
    /\ pc = "incWrite" => reg < MAX_CLIENTS
    /\ pc \in {"scan", "accept"} => idx < MAX_CLIENTS

IInv == TypeOK /\ MainInv /\ CountInv

-----------------------------------------------------------------------------
(* Steps of the program, whatever is recorded of them. *)
Steps == \/ Main \/ ToggleStop \/ UNCHANGED state
         \/ \E h \in Ids : OtherStart(h) \/ OtherEnd(h)
         \/ \E c \in Conns : Thread(c) \/ Arrive(c)

LEMMA NextIsStep == [Next]_vars => Steps
  BY DEF Next, Tracked, Steps, vars, Undefined

LEMMA InitIInv == Init => IInv
<1> SUFFICES ASSUME Init PROVE IInv
  OBVIOUS
<1> USE ConstAssumption DEF Init
<1>1. m_clients \in Int /\ MainTypes /\ SlotTypes
  BY DEF MainTypes, SlotTypes, MainPC, Slots
<1>2. ThreadTypes
  BY DEF ThreadTypes, ThreadPC, Slots
<1>3. net \in [Conns -> {"idle", "pending", "open", "closed", "refused"}]
  OBVIOUS
<1>4. backlog \in Seq(Conns)
  OBVIOUS
<1>5. AppTypes
  BY DEF AppTypes
<1>6. MainInv /\ CountInv
  BY DEF MainInv, CountInv, Admitting, Joining
<1> QED
  BY <1>1, <1>2, <1>3, <1>4, <1>5, <1>6 DEF IInv, TypeOK, NetTypes

(* behind is a truth value. *)
LEMMA BehindType == TypeOK /\ [Next]_vars => behind' \in BOOLEAN
<1> SUFFICES ASSUME TypeOK, [Next]_vars PROVE behind' \in BOOLEAN
  OBVIOUS
<1>1. \/ behind' = behind
      \/ behind' = (behind \/ (listening' /\ Drift' < 0))
  BY DEF Next, Tracked, vars, Undefined
<1> QED
  BY <1>1 DEF TypeOK

(* A step that leaves a group of variables alone leaves their types alone.  *)
LEMMA Kept ==
    /\ TypeOK /\ UNCHANGED mainVars => MainTypes'
    /\ TypeOK /\ UNCHANGED slotVars => SlotTypes'
    /\ TypeOK /\ UNCHANGED threadVars => ThreadTypes'
    /\ TypeOK /\ UNCHANGED netVars => NetTypes'
    /\ TypeOK /\ UNCHANGED <<appVars, faults>> => AppTypes'
    /\ TypeOK /\ UNCHANGED m_clients => m_clients' \in Int
    /\ TypeOK /\ MainOnly => /\ m_clients' \in Int
                             /\ SlotTypes' /\ ThreadTypes' /\ NetTypes' /\ AppTypes'
<1> USE DEF TypeOK, MainOnly
<1>1. TypeOK /\ UNCHANGED mainVars => MainTypes'
  BY DEF MainTypes, mainVars
<1>2. TypeOK /\ UNCHANGED slotVars => SlotTypes'
  BY DEF SlotTypes, slotVars, Slots
<1>3. TypeOK /\ UNCHANGED threadVars => ThreadTypes'
  BY DEF ThreadTypes, threadVars, Slots
<1>4. TypeOK /\ UNCHANGED netVars => NetTypes'
  BY DEF NetTypes, netVars
<1>5. TypeOK /\ UNCHANGED <<appVars, faults>> => AppTypes'
  BY DEF AppTypes, appVars
<1>6. TypeOK /\ UNCHANGED m_clients => m_clients' \in Int
  OBVIOUS
<1> QED
  BY <1>1, <1>2, <1>3, <1>4, <1>5, <1>6

(* The types, but for the history variable. *)
Types == m_clients \in Int /\ MainTypes /\ SlotTypes /\ ThreadTypes /\ NetTypes
             /\ AppTypes

(* Every step keeps the types and main's local facts. *)
LEMMA TypeStep == IInv /\ [Next]_vars => Types' /\ MainInv'
<1> SUFFICES ASSUME IInv, Steps PROVE Types' /\ MainInv'
  BY NextIsStep
<1>0. TypeOK /\ MainInv /\ MAX_CLIENTS \in Nat \ {0}
  BY ConstAssumption DEF IInv
<1> USE <1>0 DEF MainInv, Slots, Joining
<1> DEFINE Others == m_clients' \in Int /\ SlotTypes' /\ ThreadTypes' /\ NetTypes'
                        /\ AppTypes'
<1>1. CASE Open
  <2>1. MainTypes' /\ SlotTypes' /\ ThreadTypes' /\ NetTypes'
    BY <1>1, Kept DEF Open
  <2>2. m_clients' \in Int
    BY <1>1 DEF Open, TypeOK
  <2>3. opens' \in Nat
    BY <1>1 DEF Open, TypeOK, AppTypes
  <2>4. faults' \in Nat
    BY <1>1 DEF Open, TypeOK, AppTypes, Fault
  <2>5. listening' \in BOOLEAN /\ stop_flag' \in BOOLEAN /\ others' \in SUBSET Ids
    BY <1>1 DEF Open, TypeOK, AppTypes
  <2>6. MainInv'
    BY <1>1 DEF Open, mainVars
  <2> QED
    BY <2>1, <2>2, <2>3, <2>4, <2>5, <2>6 DEF Types, AppTypes
<1>2. CASE ToggleStop
  <2>1. m_clients' \in Int /\ MainTypes' /\ SlotTypes' /\ ThreadTypes' /\ NetTypes'
    BY <1>2, Kept DEF ToggleStop
  <2>2. AppTypes' /\ MainInv'
    BY <1>2 DEF ToggleStop, TypeOK, AppTypes, mainVars
  <2> QED
    BY <2>1, <2>2 DEF Types
<1>3. CASE Enter \/ WaitLoop \/ SelectTimeout \/ SelectReady \/ Pick
          \/ CloseEnter
  <2>1. Others
    BY <1>3, Kept DEF Enter, WaitLoop, SelectTimeout, SelectReady, Pick,
       CloseEnter
  <2>2. MainTypes' /\ MainInv'
    BY <1>3 DEF Enter, WaitLoop, SelectTimeout, SelectReady, Pick,
       CloseEnter, TypeOK, MainTypes, MainPC
  <2> QED
    BY <2>1, <2>2 DEF Types
<1>4. CASE Refuse \/ UNCHANGED state
  BY <1>4, Kept DEF Refuse, state, TypeOK, Types, mainVars, Joining
<1>5. CASE SelectError
  <2>1. m_clients' \in Int /\ SlotTypes' /\ ThreadTypes' /\ NetTypes'
    BY <1>5, Kept DEF SelectError
  <2>2. AppTypes'
    BY <1>5 DEF SelectError, TypeOK, AppTypes, Fault, appVars
  <2>3. MainTypes' /\ MainInv'
    BY <1>5 DEF SelectError, TypeOK, MainTypes, MainPC
  <2> QED
    BY <2>1, <2>2, <2>3 DEF Types
<1>6. CASE Sweep \/ CloseSweep
  <2>1. Others
    BY <1>6, Kept DEF Sweep, CloseSweep, SweepStep
  <2>2. MainTypes' /\ MainInv'
    BY <1>6 DEF Sweep, CloseSweep, SweepStep, TypeOK, MainTypes, MainPC
  <2> QED
    BY <2>1, <2>2 DEF Types
<1>7. CASE Join \/ CloseJoin \/ Rejoin \/ CloseRejoin
  <2>1. m_clients' \in Int /\ NetTypes' /\ AppTypes'
    BY <1>7, Kept DEF Join, CloseJoin, WaitStep, Rejoin, CloseRejoin, RejoinStep,
       CountKept
  <2>2. SlotTypes'
    BY <1>7 DEF Join, CloseJoin, WaitStep, Rejoin, CloseRejoin, RejoinStep, TypeOK,
       SlotTypes, slotVars
  <2>3. ThreadTypes'
    <3>1. treg' \in [Conns -> Int]
      BY <1>7 DEF Join, CloseJoin, WaitStep, Rejoin, CloseRejoin, RejoinStep,
         CountKept, TypeOK, ThreadTypes
    <3>2. CASE UNCHANGED <<tpc, tid, slot>>
      BY <3>1, <3>2 DEF TypeOK, ThreadTypes
    <3>3. CASE Joined(handle[i])
      BY <3>1, <3>3 DEF Joined, TypeOK, ThreadTypes, ThreadPC
    <3> QED
      BY <1>7, <3>2, <3>3 DEF Join, CloseJoin, WaitStep, Rejoin, CloseRejoin,
         RejoinStep
  <2>4. MainTypes' /\ MainInv'
    BY <1>7 DEF Join, CloseJoin, WaitStep, Rejoin, CloseRejoin, RejoinStep, TypeOK,
       MainTypes, MainPC
  <2> QED
    BY <2>1, <2>2, <2>3, <2>4 DEF Types
<1>8. CASE Scan
  <2>1. Others
    BY <1>8, Kept DEF Scan
  <2>2. MainTypes' /\ MainInv'
    BY <1>8 DEF Scan, TypeOK, MainTypes, MainPC
  <2> QED
    BY <2>1, <2>2 DEF Types
<1>9. CASE Accept
  <2>1. Head(backlog) \in Conns /\ Tail(backlog) \in Seq(Conns)
    BY <1>9 DEF Accept, TypeOK, NetTypes
  <2>2. m_clients' \in Int /\ ThreadTypes'
    BY <1>9, Kept DEF Accept, CountKept, threadVars
  <2>3. SlotTypes'
    BY <1>9, <2>1 DEF Accept, StoredAt, TypeOK, SlotTypes
  <2>4. NetTypes'
    BY <1>9, <2>1 DEF Accept, TypeOK, NetTypes
  <2>5. AppTypes'
    BY <1>9 DEF Accept, CountKept, appVars, TypeOK, AppTypes, Fault
  <2>6. MainTypes' /\ MainInv'
    BY <1>9, <2>1 DEF Accept, TypeOK, MainTypes, MainPC
  <2> QED
    BY <2>2, <2>3, <2>4, <2>5, <2>6 DEF Types
<1>10. CASE Spawn
  <2>1. m_clients' \in Int /\ NetTypes'
    BY <1>10, Kept DEF Spawn, CountKept
  <2>2. SlotTypes'
    <3>1. client_idx' \in [Slots -> Slots \cup {-1}] /\ UNCHANGED m_client_sd
      BY <1>10 DEF Spawn, ParamsOf, TypeOK, SlotTypes
    <3>2. handle' \in [Slots -> Ids \cup {NoId}]
      BY <1>10 DEF Spawn, TypeOK, SlotTypes, FreeIds
    <3> QED
      BY <3>1, <3>2 DEF TypeOK, SlotTypes
  <2>3. ThreadTypes'
    BY <1>10 DEF Spawn, CountKept, TypeOK, ThreadTypes, ThreadPC, FreeIds
  <2>4. AppTypes'
    BY <1>10 DEF Spawn, CountKept, appVars, TypeOK, AppTypes, Fault
  <2>5. MainTypes' /\ MainInv'
    BY <1>10 DEF Spawn, TypeOK, MainTypes, MainPC
  <2> QED
    BY <2>1, <2>2, <2>3, <2>4, <2>5 DEF Types
<1>11. CASE IncRead
  <2>1. Others
    BY <1>11, Kept DEF IncRead
  <2>2. MainTypes' /\ MainInv'
    BY <1>11 DEF IncRead, TypeOK, MainTypes, MainPC
  <2> QED
    BY <2>1, <2>2 DEF Types
<1>12. CASE IncWrite
  <2>1. SlotTypes' /\ ThreadTypes' /\ NetTypes' /\ AppTypes'
    BY <1>12, Kept DEF IncWrite
  <2>2. m_clients' \in Int /\ MainTypes' /\ MainInv'
    BY <1>12 DEF IncWrite, Incremented, TypeOK, MainTypes, MainPC
  <2> QED
    BY <2>1, <2>2 DEF Types
<1>13. CASE CloseListen
  <2>1. m_clients' \in Int /\ SlotTypes' /\ ThreadTypes'
    BY <1>13, Kept DEF CloseListen
  <2>2. NetTypes'
    BY <1>13 DEF CloseListen, TypeOK, NetTypes
  <2>3. AppTypes'
    BY <1>13 DEF CloseListen, TypeOK, AppTypes
  <2>4. MainTypes' /\ MainInv'
    BY <1>13 DEF CloseListen, TypeOK, MainTypes, MainPC
  <2> QED
    BY <2>1, <2>2, <2>3, <2>4 DEF Types
<1>14. ASSUME NEW t \in Conns, Thread(t) PROVE Types' /\ MainInv'
  <2>1. MainTypes' /\ AppTypes' /\ MainInv'
    BY <1>14, Kept DEF Thread, Disconnect, CloseFd, ClearSlot, DecRead,
       DecWrite,
       Goto, mainVars
  <2>2. m_clients' \in Int
    BY <1>14 DEF Thread, Disconnect, CloseFd, ClearSlot, DecRead, DecWrite,
       Decremented, TypeOK, ThreadTypes
  <2>3. ThreadTypes'
    BY <1>14 DEF Thread, Disconnect, CloseFd, ClearSlot, DecRead, DecWrite,
       Goto, TypeOK, ThreadTypes, ThreadPC
  <2>4. SlotTypes'
    BY <1>14 DEF Thread, Disconnect, CloseFd, ClearSlot, DecRead, DecWrite,
       Goto, TypeOK, SlotTypes
  <2>5. NetTypes'
    BY <1>14 DEF Thread, Disconnect, CloseFd, ClearSlot, DecRead, DecWrite,
       Goto, TypeOK, NetTypes
  <2> QED
    BY <2>1, <2>2, <2>3, <2>4, <2>5 DEF Types
<1>15. ASSUME NEW c \in Conns, Arrive(c) PROVE Types' /\ MainInv'
  <2>1. /\ m_clients' \in Int /\ MainTypes' /\ SlotTypes' /\ ThreadTypes'
        /\ AppTypes' /\ MainInv'
    BY <1>15, Kept DEF Arrive, mainVars
  <2>2. NetTypes'
    BY <1>15 DEF Arrive, TypeOK, NetTypes
  <2> QED
    BY <2>1, <2>2 DEF Types
<1>16. ASSUME NEW h \in Ids, OtherStart(h) \/ OtherEnd(h) PROVE Types' /\ MainInv'
  <2>1. /\ m_clients' \in Int /\ MainTypes' /\ SlotTypes' /\ ThreadTypes'
        /\ NetTypes' /\ MainInv'
    BY <1>16, Kept DEF OtherStart, OtherEnd, mainVars
  <2>2. AppTypes'
    BY <1>16 DEF OtherStart, OtherEnd, TypeOK, AppTypes
  <2> QED
    BY <2>1, <2>2 DEF Types
<1> QED
  BY <1>1, <1>2, <1>3, <1>4, <1>5, <1>6, <1>7, <1>8, <1>9, <1>10, <1>11, <1>12,
     <1>13, <1>14, <1>15, <1>16 DEF Steps, Main, Connect2, Close

(* Every step keeps the bounds on m_clients and on what was read of it. *)
LEMMA CountStep == IInv /\ [Next]_vars => CountInv'
<1> SUFFICES ASSUME IInv, Steps PROVE CountInv'
  BY NextIsStep
<1> USE ConstAssumption DEF IInv, TypeOK, MainTypes, ThreadTypes, CountInv,
       Admitting, Slots,
        MainOnly, CountKept, mainVars, slotVars, threadVars, netVars, appVars
<1>1. CASE Open
  BY <1>1 DEF Open
<1>2. CASE ToggleStop
  BY <1>2 DEF ToggleStop
<1>3. CASE Enter \/ WaitLoop \/ SelectTimeout \/ SelectReady \/ Pick
          \/ CloseEnter
  BY <1>3 DEF Enter, WaitLoop, SelectTimeout, SelectReady, Pick, CloseEnter,
       Full
<1>4. CASE Refuse \/ UNCHANGED state
  BY <1>4 DEF Refuse, state
<1>5. CASE SelectError
  BY <1>5 DEF SelectError
<1>6. CASE Sweep \/ CloseSweep
  BY <1>6 DEF Sweep, CloseSweep, SweepStep
<1>7. CASE Join \/ CloseJoin \/ Rejoin \/ CloseRejoin
  <2>1. /\ UNCHANGED <<m_clients, treg, listening>>
        /\ pc' \notin {"incWrite", "scan", "accept"} /\ (Admitting' => Admitting)
    BY <1>7 DEF Join, CloseJoin, WaitStep, Rejoin, CloseRejoin, RejoinStep
  <2>2. \A t \in Conns : /\ tpc'[t] = "decWrite" => tpc[t] = "decWrite"
                         /\ tpc'[t] # "none" => tpc[t] # "none"
    <3>1. CASE UNCHANGED <<tpc, tid, slot>>
      BY <3>1
    <3>2. CASE Joined(handle[i])
      BY <3>2 DEF Joined, Ended
    <3> QED
      BY <1>7, <3>1, <3>2 DEF Join, CloseJoin, WaitStep, Rejoin, CloseRejoin,
         RejoinStep
  <2> QED
    BY <2>1, <2>2
<1>8. CASE Scan
  BY <1>8 DEF Scan
<1>9. CASE Accept
  BY <1>9 DEF Accept
<1>10. CASE Spawn
  BY <1>10 DEF Spawn
<1>11. CASE IncRead \/ IncWrite
  BY <1>11 DEF IncRead, IncWrite, Incremented
<1>12. CASE CloseListen
  BY <1>12 DEF CloseListen
<1>13. ASSUME NEW t \in Conns, Thread(t) PROVE CountInv'
  <2> USE DEF Goto
  <2>1. CASE Disconnect(t) \/ CloseFd(t) \/ ClearSlot(t)
    BY <2>1 DEF Disconnect, CloseFd, ClearSlot
  <2>2. CASE DecRead(t)
    BY <2>2 DEF DecRead
  <2>3. CASE DecWrite(t)
    BY <2>3 DEF DecWrite, Decremented
  <2> QED
    BY <1>13, <2>1, <2>2, <2>3 DEF Thread
<1>14. ASSUME NEW c \in Conns, Arrive(c) PROVE CountInv'
  BY <1>14 DEF Arrive
<1>15. ASSUME NEW h \in Ids, OtherStart(h) \/ OtherEnd(h) PROVE CountInv'
  BY <1>15 DEF OtherStart, OtherEnd
<1> QED
  BY <1>1, <1>2, <1>3, <1>4, <1>5, <1>6, <1>7, <1>8, <1>9, <1>10, <1>11, <1>12,
     <1>13, <1>14, <1>15 DEF Steps, Main, Connect2, Close

LEMMA Inductive == Spec => []IInv
<1>1. IInv /\ [Next]_vars => IInv'
  BY TypeStep, BehindType, CountStep DEF IInv, TypeOK, Types
<1> QED
  BY InitIInv, <1>1, PTL DEF Spec

(* Type correctness of the server under every interleaving. *)
THEOREM TypeCorrect == Spec => []TypeOK
<1>1. IInv => TypeOK
  BY DEF IInv
<1> QED
  BY Inductive, <1>1, PTL
=============================================================================
