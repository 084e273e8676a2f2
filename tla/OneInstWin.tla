----------------------------- MODULE OneInstWin -----------------------------
(***************************************************************************)
(* Class OneInstance of one_inst.cpp, Windows branch: a named mutex that   *)
(* is created by the first call of operator()() and never looked at again. *)
(* The kernel keeps the mutex as long as some process has a handle to it.  *)
(***************************************************************************)
EXTENDS Integers

CONSTANTS WinProcs,      \* the processes, each with one OneInstance object
          MaxCalls,   \* bound: calls of operator()() by one object
          MaxWinFaults   \* bound: calls of CreateMutex() that fail

ASSUME BoundsAssumption == MaxCalls \in Nat /\ MaxWinFaults \in Nat

VARIABLES
    alive,     \* the processes that run
    m_hMutex,  \* process -> "none" ((HANDLE) -1), "mutex" or "null"
    winSaid,      \* process -> what the last operator()() returned
    calls,     \* process -> calls so far
    winFaults     \* failed calls of CreateMutex() so far

winVars == <<alive, m_hMutex, winSaid, calls, winFaults>>

\* The kernel object exists: some process has it open.
MutexThere == \E p \in WinProcs : m_hMutex[p] = "mutex"

WinInit ==
    /\ alive = {}
    /\ m_hMutex = [p \in WinProcs |-> "none"]
    /\ winSaid = [p \in WinProcs |-> FALSE]
    /\ calls = [p \in WinProcs |-> 0]
    /\ winFaults = 0

WinConstruct(p) ==
    /\ p \notin alive
    /\ alive' = alive \cup {p}
    /\ calls' = [calls EXCEPT ![p] = 0]
    /\ UNCHANGED <<m_hMutex, winSaid, winFaults>>

\* The first call: CreateMutex() opens the mutex whether or not it was there,
\* and GetLastError() tells which.
M_FirstAnswer(p) == TRUE             \* GetLastError() is not looked at
FirstAnswer(p) == ~MutexThere

CallFirst(p) ==
    /\ m_hMutex[p] = "none"
    /\ \/ /\ m_hMutex' = [m_hMutex EXCEPT ![p] = "mutex"]
          /\ winSaid' = [winSaid EXCEPT ![p] = FirstAnswer(p)]
          /\ UNCHANGED winFaults
       \/ /\ winFaults < MaxWinFaults          \* NULL, and some other error code
          /\ winFaults' = winFaults + 1
          /\ m_hMutex' = [m_hMutex EXCEPT ![p] = "null"]
          /\ winSaid' = [winSaid EXCEPT ![p] = TRUE]

\* Every further call skips the test.
AgainAnswer(p) == TRUE

CallAgain(p) ==
    /\ m_hMutex[p] # "none"
    /\ winSaid' = [winSaid EXCEPT ![p] = AgainAnswer(p)]
    /\ UNCHANGED <<m_hMutex, winFaults>>

WinCall(p) ==
    /\ p \in alive /\ calls[p] < MaxCalls
    /\ calls' = [calls EXCEPT ![p] = @ + 1]
    /\ CallFirst(p) \/ CallAgain(p)
    /\ UNCHANGED alive

\* The process ends or crashes: CloseHandle() by the destructor or the kernel.
WinEnd(p) ==
    /\ p \in alive
    /\ alive' = alive \ {p}
    /\ m_hMutex' = [m_hMutex EXCEPT ![p] = "none"]
    /\ winSaid' = [winSaid EXCEPT ![p] = FALSE]
    /\ UNCHANGED <<calls, winFaults>>

WinNext == \E p \in WinProcs : WinConstruct(p) \/ WinCall(p) \/ WinEnd(p)
WinSpec == WinInit /\ [][WinNext]_winVars

-----------------------------------------------------------------------------
(* "Make sure at most one instance of the tool is running"                  *)
(* (one_inst.cpp:67): operator()() has not answered yes to two processes    *)
(* that both run.                                                           *)
WinOnlyOne == \A p, q \in WinProcs : winSaid[p] /\ winSaid[q] => p = q

(* What is left of the promise: two processes that were both told yes can   *)
(* only be there if one of them asked again or got no mutex at all; first   *)
(* answers that come from the mutex exclude each other, whatever the order  *)
(* of calls, ends and crashes.                                              *)
OnlyOneAtFirst ==
    \A p, q \in WinProcs : p # q /\ winSaid[p] /\ winSaid[q] =>
        \E r \in {p, q} : calls[r] > 1 \/ m_hMutex[r] = "null"
=============================================================================
