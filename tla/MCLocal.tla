------------------------------ MODULE MCLocal ------------------------------
(***************************************************************************)
(* Components for the threads and processes of one machine.  They do not   *)
(* interact and are checked one at a time: which one a behaviour is about  *)
(* is chosen at its start.                                                 *)
(***************************************************************************)
EXTENDS OneInstLinux, OneInstWin, Barrier, Threads

VARIABLE part

MCInit ==
    /\ part \in {"instance", "instanceWin", "barrier", "threads"}
    /\ Init /\ WinInit /\ BarrierInit /\ ThreadsInit
    /\ part # "barrier" => build = "linux"

MCNext ==
    \/ /\ part = "instance" /\ Next
       /\ UNCHANGED <<winVars, barrierVars, threadVars>>
    \/ /\ part = "instanceWin" /\ WinNext
       /\ UNCHANGED <<vars, barrierVars, threadVars>>
    \/ /\ part = "barrier" /\ BarrierNext
       /\ UNCHANGED <<vars, winVars, threadVars>>
    \/ /\ part = "threads" /\ ThreadsNext
       /\ UNCHANGED <<vars, winVars, barrierVars>>

mcVars == <<part, vars, winVars, barrierVars, threadVars>>

\* The fairness of OneInstLinux!FairSpec, and of the barrier.
MCSpec ==
    /\ MCInit /\ [][MCNext /\ UNCHANGED part]_mcVars
    /\ \A p \in Procs : WF_vars(Call(p) \/ OpenFile(p) \/ TryLock(p))
    /\ BarrierFair
=============================================================================
