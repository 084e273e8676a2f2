------------------------------ MODULE Barrier ------------------------------
(***************************************************************************)
(* Class CBarrier of cthread.h, used by the threads it was initialised     *)
(* for.  The Linux build is a pthread_barrier_t.  The Windows build has    *)
(* one auto-reset event per expected arrival: wait() signals the event at  *)
(* index m_nsync++, a plain int, and waits for all of them together.       *)
(***************************************************************************)
EXTENDS Integers, FiniteSets

CONSTANTS Threads,     \* the threads that meet
          MaxRounds    \* bound: calls of wait() by one thread

\* More than MAXIMUM_WAIT_OBJECTS handles make WaitForMultipleObjects() fail.
ASSUME BarrierAssumption ==
    IsFiniteSet(Threads) /\ Cardinality(Threads) <= 64 /\ MaxRounds \in Nat

VARIABLES
    build,    \* "linux" or "windows", for good
    bpc,      \* thread -> "out" of wait(), or inside: "read", "write", "set"
              \* (Windows: m_nsync++ and SetEvent()), "wait", "released"
    bidx,     \* thread -> the value of m_nsync it has read
    m_nsync,  \* the member of that name
    m_hSyncEvents,  \* the events that are signalled, by index
    round,    \* pthread_barrier_t: rounds completed
    entered,  \* thread -> calls of wait() so far
    left      \* thread -> returns from wait() so far

barrierState == <<bidx, m_nsync, m_hSyncEvents, round>>
barrierVars == <<build, bpc, bidx, m_nsync, m_hSyncEvents, round, entered, left>>

\* init(count), with the number of threads as count
M_Fewer == Cardinality(Threads) - 1
M_More == Cardinality(Threads) + 1
m_cnt == Cardinality(Threads)

BarrierInit ==
    /\ build \in {"linux", "windows"}
    /\ bpc = [t \in Threads |-> "out"]
    /\ bidx = [t \in Threads |-> 0]
    /\ m_nsync = 0
    /\ m_hSyncEvents = {}
    /\ round = 0
    /\ entered = [t \in Threads |-> 0]
    /\ left = [t \in Threads |-> 0]

Waiting == {t \in Threads : bpc[t] = "wait"}

Enters(t) ==
    /\ bpc[t] = "out" /\ entered[t] < MaxRounds
    /\ entered' = [entered EXCEPT ![t] = @ + 1]
    /\ UNCHANGED <<build, left>>

\* pthread_barrier_wait(): the last of m_cnt threads releases all of them.
LastOf(t) == Cardinality(Waiting \cup {t}) = m_cnt

WaitLinux(t) ==
    /\ build = "linux"
    /\ Enters(t)
    /\ bpc' = IF LastOf(t)
                THEN [u \in Threads |->
                         IF u \in Waiting \cup {t} THEN "released" ELSE bpc[u]]
                ELSE [bpc EXCEPT ![t] = "wait"]
    /\ round' = IF LastOf(t) THEN round + 1 ELSE round
    /\ UNCHANGED <<bidx, m_nsync, m_hSyncEvents>>

\* m_nsync++ is a read and a write.
WaitWindows(t) ==
    /\ build = "windows"
    /\ Enters(t)
    /\ bpc' = [bpc EXCEPT ![t] = "read"]
    /\ UNCHANGED barrierState

ReadIndex(t) ==
    /\ bpc[t] = "read"
    /\ bpc' = [bpc EXCEPT ![t] = "write"]
    /\ bidx' = [bidx EXCEPT ![t] = m_nsync]
    /\ UNCHANGED <<build, m_nsync, m_hSyncEvents, round, entered, left>>

WriteIndex(t) ==
    /\ bpc[t] = "write"
    /\ bpc' = [bpc EXCEPT ![t] = "set"]
    /\ m_nsync' = bidx[t] + 1
    /\ UNCHANGED <<build, bidx, m_hSyncEvents, round, entered, left>>

\* An index behind the vector yields a handle that is none of the events (or
\* the program ends, which no step stands for); SetEvent() is not checked.
SetEvent(t) ==
    /\ bpc[t] = "set"
    /\ bpc' = [bpc EXCEPT ![t] = "wait"]
    /\ m_hSyncEvents' = m_hSyncEvents \cup ({bidx[t]} \cap 0 .. m_cnt - 1)
    /\ UNCHANGED <<build, bidx, m_nsync, round, entered, left>>

\* Leaving.  WaitForMultipleObjects(.., TRUE, ..) is satisfied when all events
\* are signalled, and takes the signal from all of them.
M_AfterWait == m_hSyncEvents          \* manual-reset events
AfterWait == {}

Leave(t) ==
    /\ \/ /\ build = "linux" /\ bpc[t] = "released"
          /\ UNCHANGED m_hSyncEvents
       \/ /\ build = "windows" /\ bpc[t] = "wait"
          /\ 0 .. m_cnt - 1 \subseteq m_hSyncEvents
          /\ m_hSyncEvents' = AfterWait
    /\ bpc' = [bpc EXCEPT ![t] = "out"]
    /\ left' = [left EXCEPT ![t] = @ + 1]
    /\ UNCHANGED <<build, bidx, m_nsync, round, entered>>

BarrierStep(t) ==
    \/ WaitLinux(t) \/ WaitWindows(t)
    \/ ReadIndex(t) \/ WriteIndex(t) \/ SetEvent(t) \/ Leave(t)

BarrierNext == \E t \in Threads : BarrierStep(t)
BarrierSpec == BarrierInit /\ [][BarrierNext]_barrierVars

\* The system schedules every thread that can go on; nobody has to come.
BarrierFair == \A t \in Threads : WF_barrierVars(Leave(t))

-----------------------------------------------------------------------------
BarrierTypeOK ==
    /\ build \in {"linux", "windows"}
    /\ bpc \in [Threads -> {"out", "read", "write", "set", "wait", "released"}]
    /\ bidx \in [Threads -> Nat]
    /\ m_nsync \in Nat
    /\ m_hSyncEvents \in SUBSET Nat
    /\ round \in Nat
    /\ entered \in [Threads -> Nat]
    /\ left \in [Threads -> Nat]

(* Both builds keep the promise of a barrier: nobody leaves a round that    *)
(* another thread has still to enter, also when fast threads begin the next *)
(* round before slow ones have left, and whatever updates of m_nsync are    *)
(* lost.                                                                    *)
Abstract == INSTANCE AbstractBarrier
MeetsBarrier == Abstract!AbsSpec

(* On Linux, once every thread has called wait() r times, every thread      *)
(* returns from it r times.                                                 *)
EverybodyPasses == \A t \in Threads, r \in 1 .. MaxRounds :
    (build = "linux" /\ \A u \in Threads : entered[u] >= r) ~> left[t] >= r

(* On Windows the wait takes the signal from all events at once, so one     *)
(* thread at most ever leaves wait(); all others stay in it for ever.       *)
WinOnePass == build = "windows" => \A t, u \in Threads :
    left[t] <= 1 /\ (t # u => left[t] = 0 \/ left[u] = 0)
=============================================================================
