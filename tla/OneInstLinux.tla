---------------------------- MODULE OneInstLinux ----------------------------
(***************************************************************************)
(* Class OneInstance of one_inst.cpp, __linux__ branch: a file opened once *)
(* and an flock() that is retried, without waiting, by every further call  *)
(* of operator()().  Each process holds one object; processes start, ask   *)
(* any number of times, end (the destructor closes the file) or crash.     *)
(***************************************************************************)
EXTENDS Integers, FiniteSets

CONSTANTS Procs,       \* the processes, each with one OneInstance object
          NoProc,      \* nobody
          MaxFaults    \* bound: calls of open() that fail

ASSUME NoProcAssumption == NoProc \notin Procs

VARIABLES
    pc,      \* process -> "off", "idle" (outside operator()()), "open", "flock"
    m_fd,    \* process -> the member of that name; any descriptor is 3
    m_rc,    \* process -> the member of that name
    said,    \* process -> what the last operator()() returned
    locked,  \* the kernel: the process whose open file holds the lock
    faults   \* calls of open() that failed so far

vars == <<pc, m_fd, m_rc, said, locked, faults>>

Init ==
    /\ pc = [p \in Procs |-> "off"]
    /\ m_fd = [p \in Procs |-> -1]
    /\ m_rc = [p \in Procs |-> -1]
    /\ said = [p \in Procs |-> FALSE]
    /\ locked = NoProc
    /\ faults = 0

Goto(p, where) == pc' = [pc EXCEPT ![p] = where]

\* OneInstance(name)
Construct(p) ==
    /\ pc[p] = "off"
    /\ Goto(p, "idle")
    /\ m_fd' = [m_fd EXCEPT ![p] = -1]
    /\ m_rc' = [m_rc EXCEPT ![p] = -1]
    /\ UNCHANGED <<said, locked, faults>>

\* operator()() begins; only the first one that succeeds opens the file.
Call(p) ==
    /\ pc[p] = "idle"
    /\ Goto(p, IF m_fd[p] = -1 THEN "open" ELSE "flock")
    /\ UNCHANGED <<m_fd, m_rc, said, locked, faults>>

OpenFile(p) ==
    /\ pc[p] = "open"
    /\ \/ m_fd' = [m_fd EXCEPT ![p] = 3] /\ UNCHANGED faults
       \/ faults < MaxFaults /\ faults' = faults + 1 /\ UNCHANGED m_fd
    /\ Goto(p, "flock")
    /\ UNCHANGED <<m_rc, said, locked>>

\* flock(m_fd, LOCK_EX | LOCK_NB), unless it was granted before; then return.
MayTry(p) == m_fd[p] >= 0 /\ m_rc[p] = -1
M_Granted(p) == TRUE                 \* LOCK_SH instead of LOCK_EX
Granted(p) == locked = NoProc

M_Answer(p, got) == got              \* the answer of this flock() only
Answer(p, got) == m_fd[p] # -1 /\ (m_rc[p] = 0 \/ got)

TryLock(p) ==
    LET got == MayTry(p) /\ Granted(p) IN
    /\ pc[p] = "flock"
    /\ m_rc' = IF got THEN [m_rc EXCEPT ![p] = 0] ELSE m_rc
    /\ locked' = IF got THEN p ELSE locked
    /\ said' = [said EXCEPT ![p] = Answer(p, got)]
    /\ Goto(p, "idle")
    /\ UNCHANGED <<m_fd, faults>>

\* The process ends, in order or by a crash at any point: the file is closed
\* by the destructor or by the kernel, and its lock goes with it.
M_Released(p) == FALSE               \* the descriptor outlives the process
Released(p) == locked = p

End(p) ==
    /\ pc[p] # "off"
    /\ Goto(p, "off")
    /\ m_fd' = [m_fd EXCEPT ![p] = -1]
    /\ said' = [said EXCEPT ![p] = FALSE]
    /\ locked' = IF Released(p) THEN NoProc ELSE locked
    /\ UNCHANGED <<m_rc, faults>>

Next == \E p \in Procs :
           Construct(p) \/ Call(p) \/ OpenFile(p) \/ TryLock(p) \/ End(p)

Spec == Init /\ [][Next]_vars

\* A program that was refused asks again; nobody is forced to end.
FairSpec == Spec /\ \A p \in Procs : WF_vars(Call(p) \/ OpenFile(p) \/ TryLock(p))

-----------------------------------------------------------------------------
TypeOK ==
    /\ pc \in [Procs -> {"off", "idle", "open", "flock"}]
    /\ m_fd \in [Procs -> {-1, 3}]
    /\ m_rc \in [Procs -> {-1, 0}]
    /\ said \in [Procs -> BOOLEAN]
    /\ locked \in Procs \cup {NoProc}
    /\ faults \in Nat

(* The objects and the kernel agree, also across crashes: the lock belongs  *)
(* to the running process whose object remembers that it was granted, and   *)
(* only such an object ever answered yes.                                   *)
HolderKnows == \A p \in Procs :
    /\ locked = p <=> pc[p] # "off" /\ m_rc[p] = 0
    /\ locked = p => m_fd[p] # -1
    /\ said[p] => locked = p

(* At most one process believes that it is the only instance, whatever the  *)
(* order of starts, calls, ends and crashes.                                *)
OnlyOne == \A p, q \in Procs : said[p] /\ said[q] => p = q

(* The answer "yes" is never taken back from a process that goes on.        *)
YesStands == [][\A p \in Procs : said[p] => said'[p] \/ pc'[p] = "off"]_vars

(* When the instance ends or crashes, the lock does not stay behind: a      *)
(* process that keeps asking does not get "no" for ever while nobody is the *)
(* instance.                                                                *)
Takeover == \A p \in Procs :
    pc[p] # "off" ~> (pc[p] = "off" \/ \E q \in Procs : said[q])

(* The lock implements the promise: the process told is the lock's holder.  *)
Sole == INSTANCE SoleInstance WITH
            told <- {p \in Procs : pc[p] # "off" /\ m_rc[p] = 0}
SoleSpec == Sole!SoleSpec
=============================================================================
