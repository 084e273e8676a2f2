------------------------------ MODULE Threads ------------------------------
(***************************************************************************)
(* Class CThread of cthread.cpp, __linux__ branch: objects that keep the   *)
(* id of the thread they created and join it.  The system gives the id of  *)
(* a joined thread to a younger one.                                       *)
(***************************************************************************)
EXTENDS Integers

CONSTANTS
    Objects, NoObject,      \* the CThread objects
    Ids, NoId,              \* the system's thread ids; an m_thread_id never set
    Clock, Timeouts,        \* tv_nsec when wait() is called, timeouts in ms
    Second, Milli, IntSize  \* 10^9, 10^6 and 2^32, on a scale of their own

ASSUME ThreadsAssumption ==
    /\ NoObject \notin Objects /\ NoId \notin Ids
    /\ Second \in Nat \ {0} /\ Milli \in Nat \ {0} /\ IntSize \in Nat \ {0}
    /\ 2 * Second <= IntSize
    /\ Clock \subseteq 0 .. Second - 1 /\ Timeouts \subseteq Nat

VARIABLES
    m_thread_id,  \* object -> the member of that name
    thread,       \* id -> "free", "runs", or "ended" and not yet joined
    owner,        \* id -> the object that created the last thread with it
    phase,        \* object -> "new", "created", "joined", by what it was told
    past          \* history: object -> what befell it, see Befalls

threadVars == <<m_thread_id, thread, owner, phase, past>>

\* The constructor leaves m_thread_id as it is: any id, or one no thread has.
ThreadsInit ==
    /\ m_thread_id \in [Objects -> Ids \cup {NoId}]
    /\ thread = [i \in Ids |-> "free"]
    /\ owner = [i \in Ids |-> NoObject]
    /\ phase = [o \in Objects |-> "new"]
    /\ past = [o \in Objects |-> {}]

\* "failed": its last create() made no thread; "stolen": another object joined
\* the thread it made last; "again": it called create() before it was told that
\* its thread has ended; "late": it called wait() with a deadline in the next
\* second.  The first two are forgotten when it creates a thread.
Befalls == {"failed", "stolen", "again", "late"}
Again(o) == IF phase[o] = "created" THEN {"again"} ELSE {}

\* create(): returns 0 also when pthread_create() fails.
M_Stored(o, i) == IF phase[o] = "new" THEN i ELSE m_thread_id[o]
Stored(o, i) == i

Create(o) ==
    /\ phase' = [phase EXCEPT ![o] = "created"]
    /\ \/ \E i \in Ids :
            /\ thread[i] = "free"
            /\ thread' = [thread EXCEPT ![i] = "runs"]
            /\ owner' = [owner EXCEPT ![i] = o]
            /\ m_thread_id' = [m_thread_id EXCEPT ![o] = Stored(o, i)]
            /\ past' = [past EXCEPT ![o] = (@ \ {"failed", "stolen"}) \cup Again(o)]
       \/ /\ past' = [past EXCEPT ![o] = @ \cup {"failed"} \cup Again(o)]
          /\ UNCHANGED <<m_thread_id, thread, owner>>

\* The thread's function returns.
ThreadEnds(i) ==
    /\ thread[i] = "runs"
    /\ thread' = [thread EXCEPT ![i] = "ended"]
    /\ UNCHANGED <<m_thread_id, owner, phase, past>>

\* pthread_join() takes the thread that has this id now, whoever made it.
Exists(i) == i \in Ids /\ thread[i] # "free"
Robbed(o, i) == IF Exists(i) /\ owner[i] # o /\ m_thread_id[owner[i]] = i
                  THEN {owner[i]} ELSE {}

Joined(i) == thread[i] = "ended" /\ thread' = [thread EXCEPT ![i] = "free"]

\* What the objects remember of a join by o of id i.
Remembered(o, i, also) ==
    [p \in Objects |-> past[p] \cup (IF p \in Robbed(o, i) THEN {"stolen"} ELSE {})
                              \cup (IF p = o THEN also ELSE {})]

\* wait(timeout < 0): pthread_join() blocks until the thread has ended, and its
\* errors (there is no such thread) become 0.
WaitForever(o) ==
    LET i == m_thread_id[o] IN
    /\ phase[o] # "new"
    /\ IF Exists(i) THEN Joined(i) ELSE UNCHANGED thread
    /\ phase' = [phase EXCEPT ![o] = "joined"]
    /\ past' = Remembered(o, i, {})
    /\ UNCHANGED <<m_thread_id, owner>>

\* ts.tv_nsec += timeout * 1000000, where the product is an int.
AsInt(n) == LET m == n % IntSize IN IF 2 * m < IntSize THEN m ELSE m - IntSize
Deadline(now, timeout) == now + AsInt(timeout * Milli)
Valid(nsec) == nsec \in 0 .. Second - 1

\* The results of pthread_timedjoin_np(); an ended thread may or may not be
\* looked at before an invalid deadline is refused.
TimedJoin(o, nsec, res) ==
    LET i == m_thread_id[o] IN
    \/ res = "ok" /\ Exists(i) /\ Joined(i)
    \/ /\ UNCHANGED thread
       /\ \/ res = "ETIMEDOUT" /\ Exists(i) /\ thread[i] = "runs" /\ Valid(nsec)
          \/ res = "EINVAL" /\ ~Valid(nsec)
          \/ res = "ESRCH" /\ ~Exists(i)

\* wait(timeout >= 0) returns 0 for every result but ETIMEDOUT (and EBUSY).
M_Zero(res) == res \in {"ok", "ESRCH", "EINVAL", "ETIMEDOUT"}
Zero(res) == res # "ETIMEDOUT"

WaitTimed(o) ==
    /\ phase[o] # "new"
    /\ \E now \in Clock, timeout \in Timeouts :
       \E res \in {"ok", "ETIMEDOUT", "EINVAL", "ESRCH"} :
         /\ TimedJoin(o, Deadline(now, timeout), res)
         /\ phase' = IF Zero(res) THEN [phase EXCEPT ![o] = "joined"] ELSE phase
         /\ LET late == IF now + timeout * Milli < Second THEN {} ELSE {"late"} IN
            past' = IF res = "ok" THEN Remembered(o, m_thread_id[o], late)
                    ELSE [past EXCEPT ![o] = @ \cup late]
    /\ UNCHANGED <<m_thread_id, owner>>

\* close() joins, too, also after a wait() that has joined already, which is how
\* CTcpServ calls it.  An id without a thread gives ESRCH, or another error
\* that close() returns.
CloseThread(o) == WaitForever(o)

ThreadsNext ==
    \/ \E o \in Objects :
          Create(o) \/ WaitForever(o) \/ WaitTimed(o) \/ CloseThread(o)
    \/ \E i \in Ids : ThreadEnds(i)

ThreadsSpec == ThreadsInit /\ [][ThreadsNext]_threadVars

-----------------------------------------------------------------------------
ThreadsTypeOK ==
    /\ m_thread_id \in [Objects -> Ids \cup {NoId}]
    /\ thread \in [Ids -> {"free", "runs", "ended"}]
    /\ owner \in [Ids -> Objects \cup {NoObject}]
    /\ phase \in [Objects -> {"new", "created", "joined"}]
    /\ past \in [Objects -> SUBSET Befalls]

(* When an object joins a thread that it did not make, by an id that went to *)
(* that thread: only when it had joined before (wait() and then close(), as  *)
(* CTcpServ does), when its own create() failed without saying so, or when   *)
(* its own thread had been joined by another object in this way.  The first  *)
(* join after a create() that made a thread nobody robbed takes that thread. *)
JoinsOwn ==
    [][\A o \in Objects, i \in Ids :
         phase[o] = "created" /\ phase'[o] = "joined" /\ thread[i] = "ended" /\ thread'[i] = "free"
            => owner[i] = o \/ past[o] \cap {"failed", "stolen"} # {}]_threadVars

(* 0 from wait() or close() means that the last thread of the object has     *)
(* ended and is joined: whatever ids were reused, whatever create() failed,  *)
(* and whoever joined the thread.  But not when a deadline of the object     *)
(* reached into the next second, for then EINVAL becomes 0.                  *)
ZeroMeansEnded ==
    \A o \in Objects, i \in Ids :
        phase[o] = "joined" /\ "late" \notin past[o] /\ m_thread_id[o] = i /\ owner[i] = o
            => thread[i] = "free"

(* A thread that was not joined can still be joined: its creator has the id, *)
(* if the creator calls create() again only after 0 from wait() or close(),  *)
(* and gives wait() no deadline in the next second.                          *)
NoneLost ==
    \A i \in Ids : thread[i] # "free" =>
        m_thread_id[owner[i]] = i \/ past[owner[i]] \cap {"late", "again"} # {}
=============================================================================
