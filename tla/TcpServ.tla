------------------------------ MODULE TcpServ ------------------------------
(***************************************************************************)
(* Class CTcpServ of tcp_serv.cpp: a TCP server with MAX_CLIENTS slots.    *)
(* One application thread ("main") calls open(), connect2() and close();   *)
(* every accepted connection gets a service thread, which calls            *)
(* disconnect() from its own thread when its client is finished.           *)
(*                                                                         *)
(* The class takes no lock.  m_client_sd and m_clients are shared by main  *)
(* and the service threads, so every access to them is a step of its own:  *)
(* m_clients++ and m_clients-- are a read and a write.                     *)
(*                                                                         *)
(* A CThread is a pthread_t.  The id of a thread that was joined is free   *)
(* and the next thread that starts anywhere in the program may get it.     *)
(***************************************************************************)
EXTENDS Integers, Sequences, FiniteSets

CONSTANTS
    Conns,           \* the connections; each names its service thread too
    MAX_CLIENTS,     \* tcp_serv.h:36
    INVALID_SOCKET,  \* the value of a free m_client_sd[i]
    NoConn,          \* no connection
    Ids,             \* thread ids (pthread_t)
    NoId,            \* an m_thread_id that was never set
    MaxOpens,        \* bound: how often the application calls open()
    MaxFaults,       \* bound: system calls that fail
    MaxOthers        \* bound: threads of the application's own at one time

ASSUME ConstAssumption ==
    /\ MAX_CLIENTS \in Nat \ {0}
    /\ MaxOpens \in Nat
    /\ MaxFaults \in Nat
    /\ MaxOthers \in Nat
    /\ IsFiniteSet(Conns)
    /\ INVALID_SOCKET \notin Conns
    /\ NoConn \notin Conns
    /\ NoId \notin Ids

VARIABLES
    m_client_sd,  \* slot -> the connection of its descriptor, or INVALID_SOCKET
    m_clients,    \* the member variable of that name
    client_idx,   \* slot -> m_params[slot].client_idx
    handle,       \* slot -> m_client_threads[slot].m_thread_id
    pc,           \* where main is
    i,            \* main's loop variable
    idx,          \* the local variable client_idx of connect2()
    fresh,        \* the connection accept() returned in this connect2()
    reg,          \* main's copy of m_clients inside m_clients++
    tpc,          \* thread -> where it is
    tid,          \* thread -> its id until it is joined
    others,       \* the ids of threads of the application's own
    slot,         \* thread -> its params->client_idx
    treg,         \* thread -> its copy of m_clients inside m_clients--
    net,          \* connection -> its state in the kernel
    backlog,      \* the listening socket's queue
    stop_flag,    \* *stop_flag of connect2()
    listening,    \* m_sd is bound and listening
    opens,        \* calls of open() so far
    faults,       \* failed system calls so far
    behind        \* history: m_clients has missed a client in service

mainVars   == <<pc, i, idx, fresh, reg>>
slotVars   == <<m_client_sd, client_idx, handle>>
threadVars == <<tpc, tid, slot, treg>>
netVars    == <<net, backlog>>
appVars    == <<stop_flag, listening, opens, others>>
state == <<m_clients, mainVars, slotVars, threadVars, netVars, appVars, faults>>
vars == <<state, behind>>

Slots == 0 .. MAX_CLIENTS - 1

MainPC == {"app", "loop", "select", "sweep", "join", "rejoin", "scan", "accept",
           "spawn", "inc", "incWrite", "closeSweep", "closeJoin", "closeRejoin",
           "undefined"}
ThreadPC == {"none", "serve", "close", "clear", "dec", "decWrite",
             "exited", "joined"}

Used == {s \in Slots : m_client_sd[s] # INVALID_SOCKET}

\* Ids that no thread has: those of joined threads are among them.
FreeIds == Ids \ (others \cup {tid[t] : t \in Conns})

-----------------------------------------------------------------------------
Init ==
    /\ m_client_sd = [s \in Slots |-> INVALID_SOCKET]
    /\ client_idx = [s \in Slots |-> -1]
    /\ handle = [s \in Slots |-> NoId]
    /\ m_clients \in {0, MAX_CLIENTS + 1}   \* not initialised: any value
    /\ pc = "app" /\ i = 0 /\ idx = 0 /\ fresh = NoConn /\ reg = 0
    /\ tpc = [c \in Conns |-> "none"]
    /\ tid = [c \in Conns |-> NoId]
    /\ slot = [c \in Conns |-> 0]
    /\ treg = [c \in Conns |-> 0]
    /\ net = [c \in Conns |-> "idle"]
    /\ backlog = <<>>
    /\ stop_flag = FALSE /\ listening = FALSE /\ others = {}
    /\ opens = 0 /\ faults = 0 /\ behind = FALSE

Fault == faults < MaxFaults /\ faults' = faults + 1

\* Frames: a step of main that changes only its own variables; one that
\* changes slots, threads or connections but neither the count nor the socket.
MainOnly == UNCHANGED <<m_clients, slotVars, threadVars, netVars, appVars, faults>>
CountKept == UNCHANGED <<m_clients, treg, appVars>>

-----------------------------------------------------------------------------
(* open(): one step, since no other thread looks at the listening socket.  *)
(* It zeroes m_clients and leaves the slots as they are.                   *)
Open ==
    /\ pc = "app" /\ ~listening /\ opens < MaxOpens
    /\ opens' = opens + 1
    /\ \/ listening' = TRUE /\ m_clients' = 0 /\ UNCHANGED faults
       \/ Fault /\ UNCHANGED <<listening, m_clients>>    \* a system call fails
    /\ UNCHANGED <<mainVars, slotVars, threadVars, netVars, stop_flag, others>>

\* Another thread of the application flips *stop_flag.
ToggleStop ==
    /\ stop_flag' = ~stop_flag
    /\ UNCHANGED <<m_clients, mainVars, slotVars, threadVars, netVars,
                   listening, opens, others, faults>>

\* The application starts a thread of its own, which gets a free id (one that
\* no slot remembers would make no difference), ...
OtherStart(h) ==
    /\ h \in FreeIds /\ Cardinality(others) < MaxOthers
    /\ \E s \in Slots : handle[s] = h
    /\ others' = others \cup {h}
    /\ UNCHANGED <<m_clients, mainVars, slotVars, threadVars, netVars, stop_flag,
                   listening, opens, faults>>

\* ... and ends and is joined, by the application or by main in its place.
OtherEnd(h) ==
    /\ h \in others
    /\ others' = others \ {h}
    /\ UNCHANGED <<m_clients, mainVars, slotVars, threadVars, netVars, stop_flag,
                   listening, opens, faults>>

(* connect2() *)
M_Full == m_clients > MAX_CLIENTS
Full == m_clients >= MAX_CLIENTS

Enter ==
    /\ pc = "app" /\ listening /\ ~Full
    /\ pc' = "loop"
    /\ UNCHANGED <<i, idx, fresh, reg>> /\ MainOnly

\* connect2() returns 2 and changes nothing.
Refuse == pc = "app" /\ listening /\ Full /\ UNCHANGED state

\* while (*stop_flag == 0):  told to stop, connect2() returns -1.
WaitLoop ==
    /\ pc = "loop"
    /\ pc' = IF stop_flag THEN "app" ELSE "select"
    /\ UNCHANGED <<i, idx, fresh, reg>> /\ MainOnly

\* select() gives up after a second;
SelectTimeout ==
    /\ pc = "select" /\ backlog = <<>>
    /\ pc' = "loop"
    /\ UNCHANGED <<i, idx, fresh, reg>> /\ MainOnly

\* or reports the listening socket readable;
SelectReady ==
    /\ pc = "select" /\ backlog # <<>>
    /\ pc' = "sweep" /\ i' = 0
    /\ UNCHANGED <<idx, fresh, reg>> /\ MainOnly

\* or fails, and connect2() returns -1.
SelectError ==
    /\ pc = "select" /\ Fault
    /\ pc' = "app"
    /\ UNCHANGED <<i, idx, fresh, reg, m_clients, slotVars, threadVars, netVars,
                   appVars>>

\* The loop over the slots that joins the threads of disconnected clients;
\* the same loop in connect2() and in close().
Finished(s) == m_client_sd[s] = INVALID_SOCKET /\ client_idx[s] = s

SweepStep(here, join) ==
    /\ pc = here /\ i < MAX_CLIENTS
    /\ \/ Finished(i) /\ pc' = join /\ UNCHANGED i
       \/ ~Finished(i) /\ i' = i + 1 /\ UNCHANGED pc
    /\ UNCHANGED <<idx, fresh, reg>> /\ MainOnly

\* pthread_join(h) waits until the thread that has this id now has ended, be it
\* a service or a thread of the application's own that has got the id since, and
\* fails at once (ESRCH) when none has it.
M_Ended(h) == \E t \in Conns : tid[t] = h /\ tpc[t] = "exited"   \* no ESRCH
Ended(h) == h \notin others /\ \A t \in Conns : tid[t] = h => tpc[t] = "exited"

Joined(h) ==
    LET Of(t) == tid[t] = h IN
    /\ Ended(h)
    /\ tpc' = [t \in Conns |-> IF Of(t) THEN "joined" ELSE tpc[t]]
    /\ tid' = [t \in Conns |-> IF Of(t) THEN NoId ELSE tid[t]]
    /\ slot' = [t \in Conns |-> IF Of(t) THEN 0 ELSE slot[t]]

\* wait(INFINITE) joins the thread.  The handle of a slot whose thread could
\* never be created is not initialised: joining it is undefined behaviour.
WaitStep(here, then) ==
    /\ pc = here
    /\ IF handle[i] = NoId
         THEN pc' = "undefined" /\ UNCHANGED <<tpc, tid, slot>>
         ELSE pc' = then /\ Joined(handle[i])
    /\ UNCHANGED <<i, idx, fresh, reg, slotVars, netVars, faults>>
    /\ CountKept

\* close() joins once more, by an id that is free by now or taken anew.
RejoinStep(here, back) ==
    /\ pc = here
    /\ Joined(handle[i])
    /\ client_idx' = [client_idx EXCEPT ![i] = -1]
    /\ pc' = back /\ i' = i + 1
    /\ UNCHANGED <<idx, fresh, reg, m_client_sd, handle, netVars, faults>>
    /\ CountKept

Sweep  == SweepStep("sweep", "join")
Join   == WaitStep("join", "rejoin")
Rejoin == RejoinStep("rejoin", "sweep")

\* int client_idx = m_clients;
M_Pick ==
    /\ pc = "sweep" /\ i = MAX_CLIENTS
    /\ idx' = m_clients
    /\ pc' = "accept" /\ i' = 0           \* and no search for a free slot
    /\ UNCHANGED <<fresh, reg>> /\ MainOnly
Pick ==
    /\ pc = "sweep" /\ i = MAX_CLIENTS
    /\ idx' = m_clients
    /\ pc' = "scan" /\ i' = 0
    /\ UNCHANGED <<fresh, reg>> /\ MainOnly

\* Look for the first free slot; idx keeps m_clients when there is none.
Scan ==
    /\ pc = "scan"
    /\ \/ /\ i < MAX_CLIENTS /\ m_client_sd[i] = INVALID_SOCKET
          /\ idx' = i /\ pc' = "accept" /\ i' = 0
       \/ /\ i < MAX_CLIENTS /\ m_client_sd[i] # INVALID_SOCKET
          /\ i' = i + 1 /\ UNCHANGED <<idx, pc>>
       \/ /\ i = MAX_CLIENTS
          /\ pc' = "accept" /\ i' = 0 /\ UNCHANGED idx
    /\ UNCHANGED <<fresh, reg>> /\ MainOnly

\* m_client_sd[client_idx] = accept(): the result is stored unchecked, and the
\* index is not checked either.  Outside the array the store changes some other
\* member of the object (undefined behaviour), and no element of m_client_sd.
StoredAt(fd) == [s \in Slots |-> IF s = idx THEN fd ELSE m_client_sd[s]]

Accept ==
    /\ pc = "accept" /\ backlog # <<>>
    /\ fresh' = Head(backlog)
    /\ backlog' = Tail(backlog)
    /\ \/ /\ m_client_sd' = StoredAt(Head(backlog))
          /\ net' = [net EXCEPT ![Head(backlog)] = "open"]
          /\ UNCHANGED faults
       \/ /\ Fault
          /\ m_client_sd' = StoredAt(INVALID_SOCKET)
          /\ net' = [net EXCEPT ![Head(backlog)] = "refused"]
    /\ pc' = IF idx \in Slots THEN "spawn" ELSE "undefined"
    /\ UNCHANGED <<i, idx, reg, client_idx, handle, tpc, tid, slot>> /\ CountKept

\* Fill m_params[client_idx] and create the thread; CThread::create() returns 0
\* whether or not pthread_create() made one.
M_ParamsOf(s) == [client_idx EXCEPT ![s] = s + 1]
ParamsOf(s) == [client_idx EXCEPT ![s] = s]

Spawn ==
    /\ pc = "spawn"
    /\ client_idx' = ParamsOf(idx)
    /\ \/ \E h \in FreeIds :
             /\ handle' = [handle EXCEPT ![idx] = h]
             /\ tid' = [tid EXCEPT ![fresh] = h]
             /\ tpc' = [tpc EXCEPT ![fresh] = "serve"]
             /\ slot' = [slot EXCEPT ![fresh] = idx]
             /\ UNCHANGED faults
       \/ Fault /\ UNCHANGED <<handle, tid, tpc, slot>>
       \/ FreeIds = {} /\ UNCHANGED <<handle, tid, tpc, slot, faults>>
    /\ pc' = "inc"
    /\ UNCHANGED <<i, idx, fresh, reg, m_client_sd, netVars>> /\ CountKept

\* m_clients++;  return 0;
IncRead ==
    /\ pc = "inc"
    /\ reg' = m_clients
    /\ pc' = "incWrite"
    /\ UNCHANGED <<i, idx, fresh>> /\ MainOnly

M_Incremented(n) == n                     \* the new client is not counted
Incremented(n) == n + 1

IncWrite ==
    /\ pc = "incWrite"
    /\ m_clients' = Incremented(reg)
    /\ fresh' = NoConn /\ idx' = 0 /\ reg' = 0
    /\ pc' = "app"
    /\ UNCHANGED <<i, slotVars, threadVars, netVars, appVars, faults>>

(* close() *)
CloseEnter ==
    /\ pc = "app" /\ listening
    /\ pc' = "closeSweep" /\ i' = 0
    /\ UNCHANGED <<idx, fresh, reg>> /\ MainOnly

CloseSweep  == SweepStep("closeSweep", "closeJoin")
CloseJoin   == WaitStep("closeJoin", "closeRejoin")
CloseRejoin == RejoinStep("closeRejoin", "closeSweep")

\* CTcpSock::close(): the kernel resets the connections nobody accepted.
CloseListen ==
    /\ pc = "closeSweep" /\ i = MAX_CLIENTS
    /\ listening' = FALSE
    /\ net' = [c \in Conns |-> IF net[c] = "pending" THEN "refused" ELSE net[c]]
    /\ backlog' = <<>>
    /\ pc' = "app" /\ i' = 0
    /\ UNCHANGED <<idx, fresh, reg, m_clients, slotVars, threadVars,
                   stop_flag, opens, others, faults>>

-----------------------------------------------------------------------------
(* disconnect(params->client_idx), called by the service thread. *)
Goto(t, where) ==
    /\ tpc' = [tpc EXCEPT ![t] = where]
    /\ UNCHANGED <<mainVars, client_idx, handle, tid, slot, backlog, appVars, faults>>

Disconnect(t) ==
    /\ tpc[t] = "serve"
    /\ Goto(t, "close")
    /\ UNCHANGED <<m_clients, m_client_sd, treg, net>>

\* ::close(m_client_sd[client_idx]); on an error disconnect() returns -1.
M_Descriptor(t) == m_client_sd[idx]       \* main's index, as connect() passes it
Descriptor(t) == m_client_sd[slot[t]]

CloseFd(t) ==
    LET sd == Descriptor(t) IN
    /\ tpc[t] = "close"
    /\ \/ /\ sd \in Conns /\ net[sd] = "open"
          /\ net' = [net EXCEPT ![sd] = "closed"]
          /\ Goto(t, "clear")
       \/ /\ sd \in Conns => net[sd] # "open"
          /\ Goto(t, "exited") /\ UNCHANGED net
    /\ UNCHANGED <<m_clients, m_client_sd, treg>>

ClearSlot(t) ==
    /\ tpc[t] = "clear"
    /\ m_client_sd' = [m_client_sd EXCEPT ![slot[t]] = INVALID_SOCKET]
    /\ Goto(t, "dec")
    /\ UNCHANGED <<m_clients, treg, net>>

\* m_clients--;  return 0;  and the service function returns.
DecRead(t) ==
    /\ tpc[t] = "dec"
    /\ treg' = [treg EXCEPT ![t] = m_clients]
    /\ Goto(t, "decWrite")
    /\ UNCHANGED <<m_clients, m_client_sd, net>>

Decremented(n) == n - 1

DecWrite(t) ==
    /\ tpc[t] = "decWrite"
    /\ m_clients' = Decremented(treg[t])
    /\ treg' = [treg EXCEPT ![t] = 0]
    /\ Goto(t, "exited")
    /\ UNCHANGED <<m_client_sd, net>>

-----------------------------------------------------------------------------
\* A client connects: the kernel queues it behind the listening socket.
Arrive(c) ==
    /\ listening /\ net[c] = "idle" /\ Len(backlog) < MAX_CLIENTS
    /\ net' = [net EXCEPT ![c] = "pending"]
    /\ backlog' = Append(backlog, c)
    /\ UNCHANGED <<m_clients, mainVars, slotVars, threadVars, appVars, faults>>

Connect2 == \/ Enter \/ Refuse \/ WaitLoop
            \/ SelectTimeout \/ SelectReady \/ SelectError
            \/ Sweep \/ Join \/ Rejoin \/ Pick \/ Scan
            \/ Accept \/ Spawn \/ IncRead \/ IncWrite
Close == CloseEnter \/ CloseSweep \/ CloseJoin \/ CloseRejoin \/ CloseListen
Main == Open \/ Connect2 \/ Close
Thread(t) == \/ Disconnect(t) \/ CloseFd(t) \/ ClearSlot(t)
             \/ DecRead(t) \/ DecWrite(t)

(***************************************************************************)
(* What m_clients is off by: the clients it counts, with the one main is   *)
(* about to add and without those that are about to be taken off, against  *)
(* the slots in use.                                                       *)
(***************************************************************************)
Admitted == IF pc \in {"spawn", "inc", "incWrite"} THEN 1 ELSE 0
Leaving  == {t \in Conns : tpc[t] \in {"dec", "decWrite"}}
Drift == m_clients + Admitted - Cardinality(Leaving) - Cardinality(Used)

\* behind records that m_clients once missed a client: a history variable that
\* no step reads.
Tracked(A) == A /\ behind' = (behind \/ (listening' /\ Drift' < 0))

\* After undefined behaviour nothing is said of the program any more.
Defined == pc # "undefined"
Undefined == ~Defined /\ UNCHANGED vars

Next ==
    \/ Tracked(Main)
    \/ Tracked(Defined /\ ToggleStop)
    \/ \E h \in Ids : Tracked(Defined /\ (OtherStart(h) \/ OtherEnd(h)))
    \/ \E c \in Conns : Tracked(Defined /\ (Thread(c) \/ Arrive(c)))
    \/ Undefined

Spec == Init /\ [][Next]_vars

\* Fair scheduling of the threads; the application keeps calling connect2()
\* and every service ends sooner or later.
Fairness ==
    /\ WF_vars(Tracked(Connect2))
    /\ WF_vars(Tracked(Close /\ pc # "app"))
    /\ \A t \in Conns : WF_vars(Tracked(Defined /\ Thread(t)))

FairSpec == Spec /\ Fairness

-----------------------------------------------------------------------------
MainTypes ==
    /\ pc \in MainPC
    /\ i \in 0 .. MAX_CLIENTS
    /\ idx \in Int
    /\ fresh \in Conns \cup {NoConn}
    /\ reg \in Int
SlotTypes ==
    /\ m_client_sd \in [Slots -> Conns \cup {INVALID_SOCKET}]
    /\ client_idx \in [Slots -> Slots \cup {-1}]
    /\ handle \in [Slots -> Ids \cup {NoId}]
ThreadTypes ==
    /\ tpc \in [Conns -> ThreadPC]
    /\ tid \in [Conns -> Ids \cup {NoId}]
    /\ slot \in [Conns -> Slots]
    /\ treg \in [Conns -> Int]
NetTypes ==
    /\ net \in [Conns -> {"idle", "pending", "open", "closed", "refused"}]
    /\ backlog \in Seq(Conns)
AppTypes ==
    /\ stop_flag \in BOOLEAN /\ listening \in BOOLEAN
    /\ opens \in Nat /\ faults \in Nat
    /\ others \in SUBSET Ids
TypeOK == m_clients \in Int /\ MainTypes /\ SlotTypes /\ ThreadTypes /\ NetTypes
              /\ AppTypes /\ behind \in BOOLEAN

(* Whatever the interleaving of m_clients++ with any number of m_clients--, *)
(* connect2() never admits past MAX_CLIENTS: the test at its head is still   *)
(* good when, many steps later, client_idx is taken from m_clients and       *)
(* m_clients is written back.  So no index is beyond the end of the arrays;  *)
(* and none is before their start unless m_clients has missed a client.      *)
NoOverflow ==
    /\ listening => m_clients <= MAX_CLIENTS
    /\ pc = "accept" => idx < MAX_CLIENTS
    /\ pc = "accept" /\ ~behind => idx \in Slots

(* m_clients is the "current number clients" (tcp_serv.h:60): when neither   *)
(* main nor a service thread is half-way through a change of it, it counts   *)
(* the slots in use.                                                         *)
Busy == \/ pc \in {"spawn", "inc", "incWrite"}
        \/ \E t \in Conns : tpc[t] \in {"close", "clear", "dec", "decWrite"}
CountExact == listening /\ ~Busy => m_clients = Cardinality(Used)

\* m_clients is written with the successor or predecessor of a value that it
\* no longer has: what another thread wrote in between is lost.
LostUpdate(t) == tpc[t] = "decWrite" /\ tpc'[t] = "exited" /\ treg[t] # m_clients
LostIncrement(t) == LostUpdate(t) /\ treg[t] < m_clients
LostByMain == pc = "incWrite" /\ pc' = "app" /\ reg # m_clients
Reopened == opens' # opens /\ listening'
AcceptFailed == pc = "accept" /\ pc' = "spawn" /\ faults' # faults

(* What can make m_clients wrong.  It drifts away from the slots in use only *)
(* when m_clients++ and m_clients-- overlap and one of them is lost, when    *)
(* open() zeroes it, or when accept() fails; it falls behind the clients in  *)
(* service only when it is an increment that is lost or a slot was in use at *)
(* open().  Every other interleaving of main with the services is harmless,  *)
(* the reuse of a slot before its last client is counted out among them.     *)
DriftHasCause ==
    [][/\ Drift' # Drift => \/ behind \/ ~listening \/ Reopened \/ AcceptFailed
                            \/ LostByMain \/ \E t \in Conns : LostUpdate(t)
       /\ behind' # behind => \/ Reopened /\ (Used # {} \/ Leaving # {})
                              \/ \E t \in Conns : LostIncrement(t)]_vars

(* As long as m_clients has not missed a client, accept() only ever stores   *)
(* its descriptor into a free slot, so no client loses its slot to a later   *)
(* one, however many leave between the test of m_clients and the accept().   *)
NoSlotOverwritten ==
    [][~behind => \A s \in Slots : \/ m_client_sd[s] = INVALID_SOCKET
                                   \/ m_client_sd'[s] \in {m_client_sd[s], INVALID_SOCKET}]_vars

(* As long as m_clients has not missed a client, no service is out of reach: *)
(* until it has given its slot back, the slot's handle is its own thread id  *)
(* and the slot's m_params names it, so a sweep will join it.  (A service    *)
(* that gave its slot back after the sweep had passed is not joined if the   *)
(* slot is taken at once; so "dec" and later are not here.)                  *)
ServingFound ==
    ~behind => \A t \in Conns : tpc[t] \in {"serve", "close", "clear"}
        => handle[slot[t]] = tid[t] /\ client_idx[slot[t]] = slot[t]

(* As long as m_clients has not missed a client, a service thread closes the *)
(* connection it was started for and no other, although it names it only by  *)
(* the index of its slot.                                                    *)
ClosesOwnClient ==
    [][\A t \in Conns : tpc[t] = "close" /\ tpc'[t] = "clear" /\ ~behind
                            => net'[t] = "closed" /\ net[t] = "open"]_vars

(* Everybody who waits is accepted in the end, or lost by a failing accept(), *)
(* if the server goes on listening, nobody sets the stop flag, no thread of   *)
(* the application's own sits on an id, and m_clients is not taken up by      *)
(* clients that no service will ever count off: by lost updates, failed       *)
(* accepts and threads that were not created.                                 *)
Services  == {t \in Conns : tpc[t] \in {"serve", "close", "clear", "dec", "decWrite"}}
Abandoned == m_clients - Cardinality(Services)
Served ==
    <>[](listening /\ ~stop_flag /\ others = {} /\ Defined /\ Abandoned < MAX_CLIENTS)
        => \A c \in Conns : net[c] = "pending" ~> net[c] \in {"open", "refused"}

(* Neither of the two pthread_join() of a finished client's thread blocks    *)
(* connect2() or close() for ever, unless the id has gone to a thread of the *)
(* application's own by then.                                                *)
Joining == pc \in {"join", "rejoin", "closeJoin", "closeRejoin"}
JoinReturns == Joining ~> ~Joining \/ handle[i] \in others

(* The class implements a pool of MAX_CLIENTS service places filled in       *)
(* arrival order; the number of places is kept as long as m_clients has not  *)
(* missed a client, the order always.                                        *)
Pool == INSTANCE SlotPool WITH
    Capacity <- MAX_CLIENTS,
    queue    <- backlog,
    active   <- {c \in Conns : net[c] = "open"},
    gone     <- {c \in Conns : net[c] = "closed"},
    broken   <- behind
PoolSpec == Pool!PoolSpec
=============================================================================
