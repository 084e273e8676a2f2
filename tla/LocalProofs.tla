----------------------------- MODULE LocalProofs -----------------------------
(***************************************************************************)
(* Proofs about the components for the threads and processes of one        *)
(* machine: OneInstance, CBarrier and CThread, each for any number of      *)
(* processes or threads, rounds, objects, ids, times and failing calls.    *)
(***************************************************************************)
EXTENDS OneInstLinux, OneInstWin, Barrier, Threads, FiniteSetTheorems, TLAPS

(* OneInstance, Linux.  The inductive invariant is TypeOK /\ HolderKnows:   *)
(* that the lock's holder and the object that remembers it are the same is *)
(* what makes the answers exclusive.                                       *)
HolderInv == TypeOK /\ HolderKnows

LEMMA HolderStarts == Init => HolderInv
  BY NoProcAssumption DEF Init, HolderInv, TypeOK, HolderKnows

LEMMA InstTypeStep == TypeOK /\ [Next]_vars => TypeOK'
<1> SUFFICES ASSUME TypeOK, [Next]_vars PROVE TypeOK'
  OBVIOUS
<1> USE DEF TypeOK, Goto
<1>1. CASE UNCHANGED vars
  BY <1>1 DEF vars
<1>2. ASSUME NEW p \in Procs, Construct(p) PROVE TypeOK'
  BY <1>2 DEF Construct
<1>3. ASSUME NEW p \in Procs, Call(p) PROVE TypeOK'
  BY <1>3 DEF Call
<1>4. ASSUME NEW p \in Procs, OpenFile(p) PROVE TypeOK'
  <2>1. faults' \in Nat /\ m_fd' \in [Procs -> {-1, 3}]
    BY <1>4 DEF OpenFile
  <2> QED
    BY <1>4, <2>1 DEF OpenFile
<1>5. ASSUME NEW p \in Procs, TryLock(p) PROVE TypeOK'
  <2>1. Answer(p, MayTry(p) /\ Granted(p)) \in BOOLEAN
    BY DEF Answer
  <2> QED
    BY <1>5, <2>1 DEF TryLock
<1>6. ASSUME NEW p \in Procs, End(p) PROVE TypeOK'
  BY <1>6 DEF End
<1> QED
  BY <1>1, <1>2, <1>3, <1>4, <1>5, <1>6 DEF Next

(* Every step keeps the objects and the kernel in agreement.               *)
LEMMA HolderStep == HolderInv /\ [Next]_vars => HolderKnows'
<1> SUFFICES ASSUME HolderInv, [Next]_vars PROVE HolderKnows'
  OBVIOUS
<1> USE NoProcAssumption DEF HolderInv, TypeOK, HolderKnows, Goto
<1>1. CASE UNCHANGED vars
  BY <1>1 DEF vars
<1>2. ASSUME NEW p \in Procs, Construct(p) PROVE HolderKnows'
  BY <1>2 DEF Construct
<1>3. ASSUME NEW p \in Procs, Call(p) PROVE HolderKnows'
  BY <1>3 DEF Call
<1>4. ASSUME NEW p \in Procs, OpenFile(p) PROVE HolderKnows'
  BY <1>4 DEF OpenFile
<1>5. ASSUME NEW p \in Procs, TryLock(p) PROVE HolderKnows'
  <2>1. CASE MayTry(p) /\ Granted(p)
    BY <1>5, <2>1 DEF TryLock, MayTry, Granted, Answer
  <2>2. CASE ~(MayTry(p) /\ Granted(p))
    <3>1. /\ UNCHANGED <<m_rc, locked, m_fd>> /\ pc' = [pc EXCEPT ![p] = "idle"]
          /\ pc[p] = "flock"
          /\ said' = [said EXCEPT ![p] = m_fd[p] # -1 /\ m_rc[p] = 0]
      BY <1>5, <2>2 DEF TryLock, Answer
    <3> QED
      BY <3>1
  <2> QED
    BY <2>1, <2>2
<1>6. ASSUME NEW p \in Procs, End(p) PROVE HolderKnows'
  BY <1>6 DEF End, Released
<1> QED
  BY <1>1, <1>2, <1>3, <1>4, <1>5, <1>6 DEF Next

LEMMA HolderInductive == Spec => []HolderInv
<1>1. HolderInv /\ [Next]_vars => HolderInv'
  BY InstTypeStep, HolderStep DEF HolderInv
<1> QED
  BY <1>1, HolderStarts, PTL DEF Spec

(* The objects and the kernel agree on who holds the lock.                 *)
THEOREM HolderIsKnown == Spec => []HolderKnows
<1>1. HolderInv => HolderKnows
  BY DEF HolderInv
<1> QED
  BY <1>1, HolderInductive, PTL

(* operator()() answers yes to one running process at most.                *)
THEOREM OneInstanceOnly == Spec => []OnlyOne
<1>1. HolderInv => OnlyOne
  BY DEF HolderInv, HolderKnows, OnlyOne
<1> QED
  BY <1>1, HolderInductive, PTL

(* A process that was told "yes" is not told "no" later.                   *)
THEOREM YesIsKept == Spec => YesStands
<1> DEFINE Kept == \A p \in Procs : said[p] => said'[p] \/ pc'[p] = "off"
<1>1. HolderInv /\ [Next]_vars => [Kept]_vars
  <2> SUFFICES ASSUME HolderInv, Next PROVE Kept
    BY DEF Next
  <2> USE DEF HolderInv, TypeOK, HolderKnows
  <2>1. PICK p \in Procs :
           Construct(p) \/ Call(p) \/ OpenFile(p) \/ TryLock(p) \/ End(p)
    BY DEF Next
  <2>2. CASE Construct(p) \/ Call(p) \/ OpenFile(p)
    BY <2>2 DEF Construct, Call, OpenFile
  <2>3. CASE TryLock(p)
    BY <2>3 DEF TryLock, Answer
  <2>4. CASE End(p)
    BY <2>4 DEF End, Goto
  <2> QED
    BY <2>1, <2>2, <2>3, <2>4
<1> QED
  BY <1>1, HolderInductive, PTL DEF Spec, YesStands

Told == {p \in Procs : pc[p] # "off" /\ m_rc[p] = 0}

LEMMA SoleStep == HolderInv /\ [Next]_vars => [Sole!SoleNext]_Told
<1> SUFFICES ASSUME HolderInv, [Next]_vars, Told' # Told PROVE Sole!SoleNext
  BY DEF Told
<1> USE DEF HolderInv, TypeOK, HolderKnows, Goto, Told
<1>1. PICK p \in Procs :
         Construct(p) \/ Call(p) \/ OpenFile(p) \/ TryLock(p) \/ End(p)
  BY DEF Next, vars
<1>2. CASE Construct(p)
  BY <1>2 DEF Construct
<1>3. CASE Call(p)
  BY <1>3 DEF Call
<1>4. CASE OpenFile(p)
  BY <1>4 DEF OpenFile
<1>5. CASE TryLock(p)
  <2>1. MayTry(p) /\ Granted(p)
    BY <1>5 DEF TryLock
  <2>2. Told = {} /\ Told' = {p}
    BY <1>5, <2>1, NoProcAssumption DEF TryLock, Granted
  <2> QED
    BY <2>2 DEF Sole!SoleNext, Sole!Tell
<1>6. CASE End(p)
  <2>1. Told' = Told \ {p} /\ p \in Told
    BY <1>6 DEF End
  <2> QED
    BY <2>1 DEF Sole!SoleNext, Sole!Gone
<1> QED
  BY <1>1, <1>2, <1>3, <1>4, <1>5, <1>6

(* The lock implements the promise of module SoleInstance.                 *)
THEOREM ImplementsSole == Spec => SoleSpec
<1>1. Init => Sole!SoleInit
  BY DEF Init, Sole!SoleInit
<1>2. HolderInv /\ [Next]_vars => [Sole!SoleNext]_Told
  BY SoleStep
<1> QED
  BY <1>1, <1>2, HolderInductive, PTL DEF Spec, SoleSpec, Sole!SoleSpec, Told

-----------------------------------------------------------------------------
(* OneInstance, Windows.  The inductive invariant: an object that has a     *)
(* handle has asked and runs, a yes comes from a handle or from a failed    *)
(* CreateMutex(), and of two yeses that come from the mutex one was not the *)
(* first answer.                                                            *)
WinTypes ==
    /\ alive \subseteq WinProcs
    /\ m_hMutex \in [WinProcs -> {"none", "mutex", "null"}]
    /\ winSaid \in [WinProcs -> BOOLEAN]
    /\ calls \in [WinProcs -> Nat]
    /\ winFaults \in Nat
Opened(p) == m_hMutex[p] # "none" => p \in alive /\ calls[p] >= 1
SaidByHandle(p) == winSaid[p] => m_hMutex[p] # "none"
FirstsApart(p, q) ==
    p # q /\ winSaid[p] /\ winSaid[q] /\ m_hMutex[p] = "mutex" /\ m_hMutex[q] = "mutex"
        => calls[p] > 1 \/ calls[q] > 1
YesInv ==
    /\ WinTypes
    /\ \A p \in WinProcs : Opened(p) /\ SaidByHandle(p)
    /\ \A p, q \in WinProcs : FirstsApart(p, q)

LEMMA YesStarts == WinInit => YesInv
<1> SUFFICES ASSUME WinInit PROVE YesInv
  OBVIOUS
<1>1. WinTypes
  BY DEF WinInit, WinTypes
<1>2. \A p \in WinProcs : m_hMutex[p] = "none" /\ winSaid[p] = FALSE
  BY DEF WinInit
<1> QED
  BY <1>1, <1>2 DEF YesInv, Opened, SaidByHandle, FirstsApart

(* A call of operator()(), the first or a further one.                      *)
LEMMA YesCalls ==
  ASSUME YesInv, NEW c \in WinProcs, WinCall(c)
  PROVE  YesInv'
<1>0. /\ WinTypes
      /\ \A p \in WinProcs : Opened(p) /\ SaidByHandle(p)
      /\ \A p, q \in WinProcs : FirstsApart(p, q)
  BY DEF YesInv
<1>1. /\ c \in alive /\ UNCHANGED alive
      /\ calls' = [calls EXCEPT ![c] = calls[c] + 1]
  BY DEF WinCall
<1>2. /\ calls' \in [WinProcs -> Nat] /\ calls'[c] = calls[c] + 1 /\ calls[c] \in Nat
      /\ \A p \in WinProcs \ {c} : calls'[p] = calls[p]
  BY <1>0, <1>1 DEF WinTypes
<1>3. CASE CallFirst(c)
  <2>1. /\ m_hMutex[c] = "none"
        /\ \/ /\ m_hMutex' = [m_hMutex EXCEPT ![c] = "mutex"]
              /\ winSaid' = [winSaid EXCEPT ![c] = ~MutexThere]
           \/ /\ m_hMutex' = [m_hMutex EXCEPT ![c] = "null"]
              /\ winSaid' = [winSaid EXCEPT ![c] = TRUE]
    BY <1>3 DEF CallFirst, FirstAnswer
  <2>2. /\ \A p \in WinProcs \ {c} : m_hMutex'[p] = m_hMutex[p] /\ winSaid'[p] = winSaid[p]
        /\ m_hMutex'[c] \in {"mutex", "null"}
        /\ m_hMutex'[c] = "mutex" /\ winSaid'[c] => ~MutexThere
    BY <1>0, <2>1 DEF WinTypes
  <2>3. WinTypes'
    <3>1. winFaults' \in Nat
      BY <1>0, <1>3 DEF CallFirst, WinTypes
    <3>2. MutexThere \in BOOLEAN
      BY DEF MutexThere
    <3>3. m_hMutex' \in [WinProcs -> {"none", "mutex", "null"}]
      BY <1>0, <2>1 DEF WinTypes
    <3>4. winSaid' \in [WinProcs -> BOOLEAN]
      BY <1>0, <2>1, <3>2 DEF WinTypes
    <3> QED
      BY <1>0, <1>1, <1>2, <3>1, <3>3, <3>4 DEF WinTypes
  <2>4. ASSUME NEW p \in WinProcs PROVE Opened(p)' /\ SaidByHandle(p)'
    <3>1. CASE p = c
      BY <1>1, <1>2, <2>2, <3>1 DEF Opened, SaidByHandle
    <3>2. CASE p # c
      BY <1>0, <1>1, <1>2, <2>2, <3>2 DEF Opened, SaidByHandle
    <3> QED
      BY <3>1, <3>2
  <2>5. ASSUME NEW p \in WinProcs, NEW q \in WinProcs PROVE FirstsApart(p, q)'
    <3>1. CASE p = c \/ q = c
      BY <2>2, <3>1 DEF FirstsApart, MutexThere
    <3>2. CASE p # c /\ q # c
      BY <1>0, <1>2, <2>2, <3>2 DEF FirstsApart
    <3> QED
      BY <3>1, <3>2
  <2> QED
    BY <2>3, <2>4, <2>5 DEF YesInv
<1>4. CASE CallAgain(c)
  <2>1. /\ m_hMutex[c] # "none" /\ UNCHANGED <<m_hMutex, winFaults>>
        /\ winSaid' = [winSaid EXCEPT ![c] = TRUE]
    BY <1>4 DEF CallAgain, AgainAnswer
  <2>2. WinTypes'
    BY <1>0, <1>1, <1>2, <2>1 DEF WinTypes
  <2>3. calls'[c] >= 1 /\ calls'[c] > 1
    BY <1>0, <1>2, <2>1 DEF Opened
  <2>4. \A p \in WinProcs \ {c} : winSaid'[p] = winSaid[p]
    BY <1>0, <2>1 DEF WinTypes
  <2>5. ASSUME NEW p \in WinProcs PROVE Opened(p)' /\ SaidByHandle(p)'
    <3>1. CASE p = c
      BY <1>1, <2>1, <2>3, <3>1 DEF Opened, SaidByHandle
    <3>2. CASE p # c
      BY <1>0, <1>1, <1>2, <2>1, <2>4, <3>2 DEF Opened, SaidByHandle
    <3> QED
      BY <3>1, <3>2
  <2>6. ASSUME NEW p \in WinProcs, NEW q \in WinProcs PROVE FirstsApart(p, q)'
    <3>1. CASE p = c \/ q = c
      BY <2>3, <3>1 DEF FirstsApart
    <3>2. CASE p # c /\ q # c
      BY <1>0, <1>2, <2>1, <2>4, <3>2 DEF FirstsApart
    <3> QED
      BY <3>1, <3>2
  <2> QED
    BY <2>2, <2>5, <2>6 DEF YesInv
<1> QED
  BY <1>3, <1>4 DEF WinCall

LEMMA YesStep == YesInv /\ [WinNext]_winVars => YesInv'
<1> SUFFICES ASSUME YesInv, [WinNext]_winVars PROVE YesInv'
  OBVIOUS
<1>0. /\ WinTypes
      /\ \A p \in WinProcs : Opened(p) /\ SaidByHandle(p)
      /\ \A p, q \in WinProcs : FirstsApart(p, q)
  BY DEF YesInv
<1>1. CASE UNCHANGED winVars
  BY <1>0, <1>1 DEF winVars, YesInv, WinTypes, Opened, SaidByHandle, FirstsApart
<1>2. ASSUME NEW c \in WinProcs, WinConstruct(c) PROVE YesInv'
  <2>1. /\ c \notin alive /\ alive' = alive \cup {c}
        /\ calls' = [calls EXCEPT ![c] = 0]
        /\ UNCHANGED <<m_hMutex, winSaid, winFaults>>
    BY <1>2 DEF WinConstruct
  <2>2. /\ calls' \in [WinProcs -> Nat]
        /\ \A p \in WinProcs \ {c} : calls'[p] = calls[p]
    BY <1>0, <2>1 DEF WinTypes
  <2>3. WinTypes'
    BY <1>0, <2>1, <2>2 DEF WinTypes
  <2>4. m_hMutex[c] = "none" /\ ~winSaid[c]
    BY <1>0, <2>1 DEF Opened, SaidByHandle
  <2>5. \A p \in WinProcs : Opened(p)' /\ SaidByHandle(p)'
    BY <1>0, <2>1, <2>2, <2>4 DEF Opened, SaidByHandle
  <2>6. \A p, q \in WinProcs : FirstsApart(p, q)'
    BY <1>0, <2>1, <2>2, <2>4 DEF FirstsApart
  <2> QED
    BY <2>3, <2>5, <2>6 DEF YesInv
<1>3. ASSUME NEW c \in WinProcs, WinCall(c) PROVE YesInv'
  BY <1>3, YesCalls
<1>4. ASSUME NEW c \in WinProcs, WinEnd(c) PROVE YesInv'
  <2>1. /\ alive' = alive \ {c} /\ UNCHANGED <<calls, winFaults>>
        /\ m_hMutex' = [m_hMutex EXCEPT ![c] = "none"]
        /\ winSaid' = [winSaid EXCEPT ![c] = FALSE]
    BY <1>4 DEF WinEnd
  <2>2. WinTypes'
    BY <1>0, <2>1 DEF WinTypes
  <2>3. /\ m_hMutex'[c] = "none" /\ ~winSaid'[c]
        /\ \A p \in WinProcs \ {c} : m_hMutex'[p] = m_hMutex[p] /\ winSaid'[p] = winSaid[p]
    BY <1>0, <2>1 DEF WinTypes
  <2>4. \A p \in WinProcs : Opened(p)' /\ SaidByHandle(p)'
    BY <1>0, <2>1, <2>3 DEF Opened, SaidByHandle
  <2>5. \A p, q \in WinProcs : FirstsApart(p, q)'
    BY <1>0, <2>1, <2>3 DEF FirstsApart
  <2> QED
    BY <2>2, <2>4, <2>5 DEF YesInv
<1> QED
  BY <1>1, <1>2, <1>3, <1>4 DEF WinNext

(* On Windows two processes that were both told yes can only be there if    *)
(* one of them asked again or got no mutex at all.                          *)
THEOREM FirstYesExclusive == WinSpec => []OnlyOneAtFirst
<1>1. YesInv => OnlyOneAtFirst
  <2> SUFFICES ASSUME YesInv, NEW p \in WinProcs, NEW q \in WinProcs,
                      p # q, winSaid[p], winSaid[q]
               PROVE  \E r \in {p, q} : calls[r] > 1 \/ m_hMutex[r] = "null"
    BY DEF OnlyOneAtFirst
  <2>1. /\ m_hMutex[p] \in {"mutex", "null"} /\ m_hMutex[q] \in {"mutex", "null"}
        /\ FirstsApart(p, q)
    BY DEF YesInv, WinTypes, SaidByHandle
  <2> QED
    BY <2>1 DEF FirstsApart
<1> QED
  BY <1>1, YesStarts, YesStep, PTL DEF WinSpec

-----------------------------------------------------------------------------
(* CBarrier.  On Linux the counts of every thread follow from where it is.  *)
(* On Windows the argument is about the indices: a lost update of m_nsync   *)
(* gives two threads one index, and then some event is never signalled; so  *)
(* the events are complete only when all threads wait with indices of their *)
(* own, and after the first return none is ever signalled again.            *)
N == Cardinality(Threads)

LEMMA NType == N \in Nat
  BY BarrierAssumption, FS_CardinalityType DEF N

LEMMA BarrierTypeHolds == BarrierSpec => []BarrierTypeOK
<1>1. BarrierInit => BarrierTypeOK
  BY DEF BarrierInit, BarrierTypeOK
<1>2. BarrierTypeOK /\ [BarrierNext]_barrierVars => BarrierTypeOK'
  <2> SUFFICES ASSUME BarrierTypeOK, [BarrierNext]_barrierVars
               PROVE  BarrierTypeOK'
    OBVIOUS
  <2> USE NType DEF BarrierTypeOK, m_cnt, N
  <2>1. CASE UNCHANGED barrierVars
    BY <2>1 DEF barrierVars
  <2>2. ASSUME NEW t \in Threads, WaitLinux(t) PROVE BarrierTypeOK'
    BY <2>2 DEF WaitLinux, Enters
  <2>3. ASSUME NEW t \in Threads, WaitWindows(t) PROVE BarrierTypeOK'
    BY <2>3 DEF WaitWindows, Enters, barrierState
  <2>4. ASSUME NEW t \in Threads, ReadIndex(t) PROVE BarrierTypeOK'
    BY <2>4 DEF ReadIndex
  <2>5. ASSUME NEW t \in Threads, WriteIndex(t) PROVE BarrierTypeOK'
    BY <2>5 DEF WriteIndex
  <2>6. ASSUME NEW t \in Threads, SetEvent(t) PROVE BarrierTypeOK'
    BY <2>6 DEF SetEvent
  <2>7. ASSUME NEW t \in Threads, Leave(t) PROVE BarrierTypeOK'
    <3>1. m_hSyncEvents' \in SUBSET Nat
      BY <2>7 DEF Leave, AfterWait
    <3>2. /\ bpc' = [bpc EXCEPT ![t] = "out"]
          /\ left' = [left EXCEPT ![t] = @ + 1]
          /\ UNCHANGED <<build, bidx, m_nsync, round, entered>>
      BY <2>7 DEF Leave
    <3> QED
      BY <3>1, <3>2
  <2> QED
    BY <2>1, <2>2, <2>3, <2>4, <2>5, <2>6, <2>7 DEF BarrierNext, BarrierStep
<1> QED
  BY <1>1, <1>2, PTL DEF BarrierSpec

-----------------------------------------------------------------------------
(* The Linux build.                                                         *)
LinuxInv == build = "linux" => \A t \in Threads :
    \/ bpc[t] = "out" /\ entered[t] = round /\ left[t] = round
    \/ bpc[t] = "wait" /\ entered[t] = round + 1 /\ left[t] = round
    \/ bpc[t] = "released" /\ entered[t] = round /\ left[t] = round - 1

(* The thread that completes a round is the last of all threads to come.    *)
LEMMA LastOfAll ==
  ASSUME NEW t \in Threads, LastOf(t)
  PROVE  \A u \in Threads : u = t \/ bpc[u] = "wait"
<1>1. Waiting \cup {t} \in SUBSET Threads
  BY DEF Waiting
<1>2. Waiting \cup {t} = Threads
  BY <1>1, BarrierAssumption, FS_Subset DEF LastOf, m_cnt
<1> QED
  BY <1>2 DEF Waiting

LEMMA LinuxStep ==
  BarrierTypeOK /\ LinuxInv /\ [BarrierNext]_barrierVars => LinuxInv'
<1> SUFFICES ASSUME BarrierTypeOK, LinuxInv, [BarrierNext]_barrierVars,
                    build' = "linux"
             PROVE  LinuxInv'
  BY DEF LinuxInv
<1> USE DEF BarrierTypeOK
<1>1. CASE UNCHANGED barrierVars
  BY <1>1 DEF barrierVars, LinuxInv
<1>2. ASSUME NEW t \in Threads, WaitLinux(t) PROVE LinuxInv'
  <2>1. CASE LastOf(t)
    <3>1. \A u \in Threads : u = t \/ bpc[u] = "wait"
      BY <2>1, LastOfAll
    <3>2. bpc' = [u \in Threads |-> "released"] /\ round' = round + 1
      BY <1>2, <2>1, <3>1 DEF WaitLinux, Waiting
    <3> QED
      BY <1>2, <3>1, <3>2 DEF WaitLinux, Enters, LinuxInv
  <2>2. CASE ~LastOf(t)
    BY <1>2, <2>2 DEF WaitLinux, Enters, LinuxInv
  <2> QED
    BY <2>1, <2>2
<1>3. ASSUME NEW t \in Threads, Leave(t) PROVE LinuxInv'
  BY <1>3 DEF Leave, LinuxInv
<1>4. ASSUME NEW t \in Threads,
             WaitWindows(t) \/ ReadIndex(t) \/ WriteIndex(t) \/ SetEvent(t)
      PROVE  FALSE
  <2>1. build = "linux"
    BY <1>4 DEF WaitWindows, Enters, ReadIndex, WriteIndex, SetEvent
  <2> QED
    BY <1>4, <2>1 DEF WaitWindows, ReadIndex, WriteIndex, SetEvent, LinuxInv
<1> QED
  BY <1>1, <1>2, <1>3, <1>4 DEF BarrierNext, BarrierStep

-----------------------------------------------------------------------------
(* The Windows build: before anybody has left, and when p has.              *)
Inside(t) == bpc[t] \in {"write", "set", "wait"}
Distinct == \A t, u \in Threads :
    Inside(t) /\ Inside(u) /\ bidx[t] = bidx[u] => t = u

Before ==
    /\ \A t \in Threads :
          /\ left[t] = 0
          /\ (bpc[t] = "out" /\ entered[t] = 0) \/ (bpc[t] # "out" /\ entered[t] = 1)
    /\ \A i \in m_hSyncEvents :
          i < N /\ \E t \in Threads : bpc[t] = "wait" /\ bidx[t] = i
    /\ Distinct => \A t \in Threads :
          /\ bpc[t] = "write" => bidx[t] = m_nsync
          /\ bpc[t] \in {"set", "wait"} => bidx[t] < m_nsync

After(p) ==
    /\ m_hSyncEvents = {} /\ m_nsync >= N
    /\ left[p] = 1
    /\ (bpc[p] = "out" /\ entered[p] = 1) \/ (bpc[p] # "out" /\ entered[p] = 2)
    /\ Inside(p) => bidx[p] >= N
    /\ \A t \in Threads : t # p =>
          bpc[t] = "wait" /\ left[t] = 0 /\ entered[t] = 1

WinInv == build = "windows" =>
    /\ \A t \in Threads : bpc[t] # "released"
    /\ Before \/ \E p \in Threads : After(p)

(* Each of the N events was signalled by a thread that waits: when all are, *)
(* these are N threads, so all of them, each with an index of its own.      *)
LEMMA AllArrived ==
  ASSUME BarrierTypeOK, Before, 0 .. N - 1 \subseteq m_hSyncEvents
  PROVE  /\ \A t \in Threads : bpc[t] = "wait" /\ bidx[t] \in 0 .. N - 1
         /\ Distinct
         /\ N > 0 => \E t \in Threads : bidx[t] = N - 1
<1> DEFINE f == [i \in 0 .. N - 1 |->
                   CHOOSE t \in Threads : bpc[t] = "wait" /\ bidx[t] = i]
<1>1. \A i \in 0 .. N - 1 :
         f[i] \in Threads /\ bpc[f[i]] = "wait" /\ bidx[f[i]] = i
  BY DEF Before
<1>2. f \in [0 .. N - 1 -> Threads]
  BY <1>1
<1> HIDE DEF f
<1>3. f \in Injection(0 .. N - 1, Threads)
  BY <1>1, <1>2 DEF Injection, IsInjective
<1>4. IsFiniteSet(Threads) /\ Cardinality(0 .. N - 1) = N
  BY NType, FS_Interval, BarrierAssumption
<1>5. f \in Surjection(0 .. N - 1, Threads)
  BY <1>3, <1>4, FS_Injection DEF N
<1>6. \A t \in Threads : \E i \in 0 .. N - 1 : f[i] = t
  BY <1>5 DEF Surjection
<1>7. \A t \in Threads : bpc[t] = "wait" /\ bidx[t] \in 0 .. N - 1 /\ f[bidx[t]] = t
  BY <1>1, <1>6
<1>8. Distinct
  BY <1>7 DEF Distinct
<1>9. N > 0 => bidx[f[N - 1]] = N - 1 /\ f[N - 1] \in Threads
  BY <1>1, NType
<1> QED
  BY <1>7, <1>8, <1>9

(* Steps inside wait() that change nothing but the place of t, m_nsync and  *)
(* the events, before anybody has left.                                     *)
LEMMA BeforeStep ==
  ASSUME BarrierTypeOK, Before, build = "windows", NEW t \in Threads,
         WaitWindows(t) \/ ReadIndex(t) \/ WriteIndex(t) \/ SetEvent(t)
  PROVE  Before'
<1> USE NType DEF BarrierTypeOK, Before
<1>1. CASE WaitWindows(t)
  BY <1>1 DEF WaitWindows, Enters, barrierState, Distinct, Inside
<1>2. CASE ReadIndex(t)
  <2>1. /\ \A u \in Threads :
              /\ left'[u] = 0
              /\ (bpc'[u] = "out" /\ entered'[u] = 0) \/ (bpc'[u] # "out" /\ entered'[u] = 1)
        /\ \A i \in m_hSyncEvents' :
              i < N /\ \E u \in Threads : bpc'[u] = "wait" /\ bidx'[u] = i
    BY <1>2 DEF ReadIndex
  <2>2. ASSUME Distinct', NEW u \in Threads
        PROVE  /\ bpc'[u] = "write" => bidx'[u] = m_nsync'
               /\ bpc'[u] \in {"set", "wait"} => bidx'[u] < m_nsync'
    <3>1. Distinct
      BY <1>2, <2>2 DEF ReadIndex, Distinct, Inside
    <3> QED
      BY <1>2, <3>1 DEF ReadIndex
  <2> QED
    BY <2>1, <2>2 DEF N
<1>3. CASE WriteIndex(t)
  <2>1. /\ \A u \in Threads :
              /\ left'[u] = 0
              /\ (bpc'[u] = "out" /\ entered'[u] = 0) \/ (bpc'[u] # "out" /\ entered'[u] = 1)
        /\ \A i \in m_hSyncEvents' :
              i < N /\ \E u \in Threads : bpc'[u] = "wait" /\ bidx'[u] = i
    BY <1>3 DEF WriteIndex
  <2>2. ASSUME Distinct', NEW u \in Threads
        PROVE  /\ bpc'[u] = "write" => bidx'[u] = m_nsync'
               /\ bpc'[u] \in {"set", "wait"} => bidx'[u] < m_nsync'
    <3>1. Distinct
      BY <1>3, <2>2 DEF WriteIndex, Distinct, Inside
    <3>2. bidx[t] = m_nsync /\ m_nsync' = m_nsync + 1
      BY <1>3, <3>1 DEF WriteIndex
    <3>3. bpc'[u] # "write"
      BY <1>3, <3>1, <3>2 DEF WriteIndex, Distinct, Inside
    <3> QED
      BY <1>3, <3>1, <3>2, <3>3 DEF WriteIndex
  <2> QED
    BY <2>1, <2>2 DEF N
<1>4. CASE SetEvent(t)
  <2>1. /\ \A u \in Threads :
              /\ left'[u] = 0
              /\ (bpc'[u] = "out" /\ entered'[u] = 0) \/ (bpc'[u] # "out" /\ entered'[u] = 1)
        /\ \A i \in m_hSyncEvents' :
              i < N /\ \E u \in Threads : bpc'[u] = "wait" /\ bidx'[u] = i
    BY <1>4 DEF SetEvent, N, m_cnt
  <2>2. Distinct' => Distinct
    BY <1>4 DEF SetEvent, Distinct, Inside
  <2> QED
    BY <1>4, <2>1, <2>2 DEF SetEvent, N
<1> QED
  BY <1>1, <1>2, <1>3, <1>4

LEMMA WinStep ==
  BarrierTypeOK /\ WinInv /\ [BarrierNext]_barrierVars => WinInv'
<1> SUFFICES ASSUME BarrierTypeOK, WinInv, [BarrierNext]_barrierVars,
                    build' = "windows"
             PROVE  WinInv'
  BY DEF WinInv
<1> USE NType DEF BarrierTypeOK
<1>1. CASE UNCHANGED barrierVars
  BY <1>1 DEF barrierVars, WinInv, Before, After, Distinct, Inside, N
<1>2. ASSUME NEW t \in Threads, WaitLinux(t) PROVE WinInv'
  BY <1>2 DEF WaitLinux, Enters
<1>3. ASSUME NEW t \in Threads,
             WaitWindows(t) \/ ReadIndex(t) \/ WriteIndex(t) \/ SetEvent(t)
      PROVE  WinInv'
  <2>1. build = "windows"
    BY <1>3 DEF WaitWindows, Enters, ReadIndex, WriteIndex, SetEvent
  <2>2. \A u \in Threads : bpc'[u] # "released"
    BY <1>3, <2>1 DEF WinInv, WaitWindows, ReadIndex, WriteIndex, SetEvent
  <2>3. CASE Before
    BY <1>3, <2>1, <2>2, <2>3, BeforeStep DEF WinInv
  <2>4. ASSUME NEW p \in Threads, After(p) PROVE After(p)'
    <3>1. t = p
      BY <1>3, <2>4 DEF After, WaitWindows, Enters, ReadIndex, WriteIndex, SetEvent
    <3>2. CASE WaitWindows(p)
      BY <2>4, <3>2 DEF After, WaitWindows, Enters, barrierState, Inside, N
    <3>3. CASE ReadIndex(p)
      BY <2>4, <3>3 DEF After, ReadIndex, Inside, N
    <3>4. CASE WriteIndex(p)
      BY <2>4, <3>4 DEF After, WriteIndex, Inside, N
    <3>5. CASE SetEvent(p)
      <4>1. m_hSyncEvents' = {}
        BY <2>4, <3>5 DEF After, SetEvent, Inside, N, m_cnt
      <4> QED
        BY <2>4, <3>5, <4>1 DEF After, SetEvent, Inside, N
    <3> QED
      BY <1>3, <3>1, <3>2, <3>3, <3>4, <3>5
  <2> QED
    BY <2>1, <2>2, <2>3, <2>4 DEF WinInv
<1>4. ASSUME NEW t \in Threads, Leave(t) PROVE WinInv'
  <2>1. build = "windows" /\ bpc[t] = "wait" /\ 0 .. N - 1 \subseteq m_hSyncEvents
    BY <1>4 DEF Leave, N, m_cnt
  <2>2. N > 0
    BY FS_EmptySet, BarrierAssumption DEF N
  <2>3. Before
    BY <2>1, <2>2 DEF WinInv, After
  <2>4. /\ \A u \in Threads : bpc[u] = "wait" /\ bidx[u] < m_nsync
        /\ \E u \in Threads : bidx[u] = N - 1
    BY <2>1, <2>2, <2>3, AllArrived DEF Before
  <2>5. m_nsync >= N
    BY <2>4
  <2>6. m_hSyncEvents' = {} /\ m_nsync' >= N'
    BY <1>4, <2>1, <2>5 DEF Leave, AfterWait, N
  <2>7. After(t)'
    BY <1>4, <2>3, <2>4, <2>6 DEF Leave, After, Inside, Before
  <2> QED
    BY <1>4, <2>4, <2>7 DEF Leave, WinInv
<1> QED
  BY <1>1, <1>2, <1>3, <1>4 DEF BarrierNext, BarrierStep

-----------------------------------------------------------------------------
BarrierInv == BarrierTypeOK /\ LinuxInv /\ WinInv

LEMMA BarrierInductive == BarrierSpec => []BarrierInv
<1>1. BarrierInit => LinuxInv /\ WinInv
  BY DEF BarrierInit, LinuxInv, WinInv, Before, Distinct
<1> QED
  BY <1>1, BarrierTypeHolds, LinuxStep, WinStep, PTL DEF BarrierSpec, BarrierInv

(* Whatever the number of threads and the interleaving of their accesses to *)
(* m_nsync, one thread at most ever returns from the Windows wait().        *)
THEOREM OnePassOnWindows == BarrierSpec => []WinOnePass
<1>1. BarrierInv => WinOnePass
  BY DEF BarrierInv, WinInv, Before, After, WinOnePass, BarrierTypeOK
<1> QED
  BY <1>1, BarrierInductive, PTL

(* Both builds implement the abstract barrier: every return from wait() is  *)
(* one of a thread whose round all others have entered.                     *)
THEOREM ImplementsBarrier == BarrierSpec => MeetsBarrier
<1>1. BarrierInit => Abstract!AbsInit
  BY DEF BarrierInit, Abstract!AbsInit
<1>2. BarrierInv /\ [BarrierNext]_barrierVars
        => [Abstract!AbsNext]_<<entered, left>>
  <2> SUFFICES ASSUME BarrierInv, [BarrierNext]_barrierVars
               PROVE  [Abstract!AbsNext]_<<entered, left>>
    OBVIOUS
  <2> USE NType DEF BarrierInv, BarrierTypeOK
  <2>1. CASE UNCHANGED barrierVars
    BY <2>1 DEF barrierVars
  <2>2. ASSUME NEW t \in Threads, WaitLinux(t) \/ WaitWindows(t)
        PROVE  Abstract!Meet(t)
    <3>1. Enters(t)
      BY <2>2 DEF WaitLinux, WaitWindows
    <3>2. entered[t] = left[t]
      BY <2>2, <3>1 DEF WaitLinux, WaitWindows, Enters, LinuxInv, WinInv, Before, After
    <3> QED
      BY <3>1, <3>2 DEF Enters, Abstract!Meet
  <2>3. ASSUME NEW t \in Threads, ReadIndex(t) \/ WriteIndex(t) \/ SetEvent(t)
        PROVE  UNCHANGED <<entered, left>>
    BY <2>3 DEF ReadIndex, WriteIndex, SetEvent
  <2>4. ASSUME NEW t \in Threads, Leave(t) PROVE Abstract!Part(t)
    <3>1. CASE build = "linux"
      BY <2>4, <3>1 DEF Leave, LinuxInv, Abstract!Part
    <3>2. CASE build = "windows"
      <4>1. 0 .. N - 1 \subseteq m_hSyncEvents /\ N > 0
        BY <2>4, <3>2, FS_EmptySet, BarrierAssumption DEF Leave, N, m_cnt
      <4>2. Before
        BY <3>2, <4>1 DEF WinInv, After
      <4>3. \A u \in Threads : bpc[u] = "wait"
        BY <4>1, <4>2, AllArrived
      <4> QED
        BY <2>4, <4>2, <4>3 DEF Leave, Before, Abstract!Part
    <3> QED
      BY <3>1, <3>2
  <2> QED
    BY <2>1, <2>2, <2>3, <2>4 DEF BarrierNext, BarrierStep, Abstract!AbsNext
<1> QED
  BY <1>1, <1>2, BarrierInductive, PTL DEF BarrierSpec, MeetsBarrier, Abstract!AbsSpec

-----------------------------------------------------------------------------
(* CThread.  The inductive invariants say where the threads are: an object   *)
(* that has just created a thread owns the one with its id, until it joins   *)
(* it or is robbed of it.                                                    *)

(* A wait with a time limit and its result. *)
LateIf(now, timeout) == IF now + timeout * Milli < Second THEN {} ELSE {"late"}
Timed(o, now, timeout, res) ==
    /\ TimedJoin(o, Deadline(now, timeout), res)
    /\ phase' = IF Zero(res) THEN [phase EXCEPT ![o] = "joined"] ELSE phase
    /\ past' = IF res = "ok" THEN Remembered(o, m_thread_id[o], LateIf(now, timeout))
               ELSE [past EXCEPT ![o] = @ \cup LateIf(now, timeout)]
Results == {"ok", "ETIMEDOUT", "EINVAL", "ESRCH"}

LEMMA WaitTimedIs ==
    ASSUME NEW o \in Objects, WaitTimed(o)
    PROVE  /\ phase[o] # "new" /\ UNCHANGED <<m_thread_id, owner>>
           /\ \E now \in Clock, timeout \in Timeouts, res \in Results :
                  Timed(o, now, timeout, res)
  BY DEF WaitTimed, Timed, LateIf, Results

LEMMA RememberedType ==
    ASSUME ThreadsTypeOK, NEW o \in Objects, NEW i, NEW also \in SUBSET Befalls
    PROVE  Remembered(o, i, also) \in [Objects -> SUBSET Befalls]
<1>1. \A p \in Objects : past[p] \in SUBSET Befalls
  BY DEF ThreadsTypeOK
<1> QED
  BY <1>1 DEF Remembered, Befalls

(* Every variable keeps its type.                                           *)
THEOREM ThreadsTypeCorrect == ThreadsSpec => []ThreadsTypeOK
<1>1. ThreadsInit => ThreadsTypeOK
  BY DEF ThreadsInit, ThreadsTypeOK
<1>2. ThreadsTypeOK /\ [ThreadsNext]_threadVars => ThreadsTypeOK'
  <2> SUFFICES ASSUME ThreadsTypeOK, [ThreadsNext]_threadVars
               PROVE  ThreadsTypeOK'
    OBVIOUS
  <2> USE DEF ThreadsTypeOK
  <2>1. CASE UNCHANGED threadVars
    BY <2>1 DEF threadVars
  <2>2. ASSUME NEW o \in Objects, Create(o) PROVE ThreadsTypeOK'
    <3>1. past' \in [Objects -> SUBSET Befalls]
      BY <2>2 DEF Create, Again, Befalls
    <3>2. /\ m_thread_id' \in [Objects -> Ids \cup {NoId}]
          /\ thread' \in [Ids -> {"free", "runs", "ended"}]
          /\ owner' \in [Ids -> Objects \cup {NoObject}]
      BY <2>2 DEF Create, Stored
    <3> QED
      BY <2>2, <3>1, <3>2 DEF Create
  <2>3. ASSUME NEW o \in Objects, WaitForever(o) PROVE ThreadsTypeOK'
    <3>1. past' \in [Objects -> SUBSET Befalls]
      BY <2>3, RememberedType DEF WaitForever
    <3>2. thread' \in [Ids -> {"free", "runs", "ended"}]
      BY <2>3 DEF WaitForever, Joined, Exists
    <3> QED
      BY <2>3, <3>1, <3>2 DEF WaitForever
  <2>4. ASSUME NEW o \in Objects, WaitTimed(o) PROVE ThreadsTypeOK'
    <3>1. PICK now \in Clock, timeout \in Timeouts, res \in Results :
            Timed(o, now, timeout, res)
      BY <2>4, WaitTimedIs
    <3>2. LateIf(now, timeout) \in SUBSET Befalls
      BY DEF LateIf, Befalls
    <3>3. past' \in [Objects -> SUBSET Befalls]
      BY <3>1, <3>2, RememberedType DEF Timed
    <3>4. thread' \in [Ids -> {"free", "runs", "ended"}]
      BY <3>1 DEF Timed, TimedJoin, Joined, Exists
    <3>5. phase' \in [Objects -> {"new", "created", "joined"}]
      BY <3>1 DEF Timed
    <3> QED
      BY <2>4, <3>3, <3>4, <3>5, WaitTimedIs
  <2>5. ASSUME NEW i \in Ids, ThreadEnds(i) PROVE ThreadsTypeOK'
    BY <2>5 DEF ThreadEnds
  <2> QED
    BY <2>1, <2>2, <2>3, <2>4, <2>5 DEF ThreadsNext, CloseThread
<1> QED
  BY <1>1, <1>2, PTL DEF ThreadsSpec

-----------------------------------------------------------------------------
OwnsIts == \A o \in Objects :
    phase[o] = "created" /\ past[o] \cap {"failed", "stolen"} = {} =>
        /\ m_thread_id[o] \in Ids
        /\ owner[m_thread_id[o]] = o /\ thread[m_thread_id[o]] # "free"

HasOwner == \A i \in Ids : thread[i] # "free" =>
    owner[i] \in Objects /\ phase[owner[i]] # "new"

OwnerInv == ThreadsTypeOK /\ OwnsIts /\ HasOwner /\ ZeroMeansEnded /\ NoneLost

(* A deadline that stays within the second is one pthread_timedjoin_np()    *)
(* accepts: the multiplication does not wrap.                               *)
LEMMA DeadlineValid ==
  ASSUME NEW now \in Clock, NEW timeout \in Timeouts,
         now + timeout * Milli < Second
  PROVE  Valid(Deadline(now, timeout))
<1> DEFINE n == timeout * Milli
<1>1. timeout \in Nat /\ Milli \in Nat /\ now \in Nat
  BY ThreadsAssumption
<1>2. n \in Nat
  BY <1>1
<1> HIDE DEF n
<1>3. now + n < Second
  BY DEF n
<1>4. n % IntSize = n /\ 2 * n < IntSize
  BY <1>1, <1>2, <1>3, ThreadsAssumption
<1>5. AsInt(n) = n
  BY <1>4 DEF AsInt
<1>6. Deadline(now, timeout) = now + n
  BY <1>5 DEF Deadline, n
<1> QED
  BY <1>1, <1>2, <1>3, <1>6, ThreadsAssumption DEF Valid

(* What a call of wait() or close() does: it takes the thread of the id, if  *)
(* there is one, or takes none; and it returns 0 only when there was none to *)
(* take, or it took it, or the deadline was bad.                             *)
Took(o) == /\ m_thread_id[o] \in Ids
           /\ thread[m_thread_id[o]] = "ended"
           /\ thread' = [thread EXCEPT ![m_thread_id[o]] = "free"]
           /\ \A p \in Objects : p # o /\ owner[m_thread_id[o]] = p
                                  /\ m_thread_id[p] = m_thread_id[o]
                                      => "stolen" \in past'[p]
JoinCall(o) ==
    /\ phase[o] # "new" /\ UNCHANGED <<m_thread_id, owner>>
    /\ \A p \in Objects : past[p] \subseteq past'[p]
    /\ \/ Took(o) /\ phase' = [phase EXCEPT ![o] = "joined"]
       \/ /\ UNCHANGED thread
          /\ \/ UNCHANGED phase
             \/ /\ phase' = [phase EXCEPT ![o] = "joined"]
                /\ "late" \in past'[o] \/ ~Exists(m_thread_id[o])

LEMMA RememberedIs ==
    ASSUME ThreadsTypeOK, NEW o \in Objects, NEW i \in Ids, thread[i] # "free", NEW also,
           past' = Remembered(o, i, also)
    PROVE  \A p \in Objects : p # o /\ owner[i] = p /\ m_thread_id[p] = i
                                  => "stolen" \in past'[p]
  BY DEF Remembered, Robbed, Exists

LEMMA ForeverIsCall ==
    ASSUME ThreadsTypeOK, NEW o \in Objects, WaitForever(o)
    PROVE  JoinCall(o)
<1> DEFINE i == m_thread_id[o]
<1>1. /\ phase[o] # "new" /\ phase' = [phase EXCEPT ![o] = "joined"]
      /\ past' = Remembered(o, i, {}) /\ UNCHANGED <<m_thread_id, owner>>
      /\ IF Exists(i) THEN Joined(i) ELSE UNCHANGED thread
  BY DEF WaitForever
<1>2. \A p \in Objects : past[p] \subseteq past'[p]
  BY <1>1 DEF Remembered
<1>3. CASE Exists(i)
  <2>1. i \in Ids /\ thread[i] = "ended" /\ thread' = [thread EXCEPT ![i] = "free"]
    BY <1>1, <1>3 DEF Exists, Joined
  <2>2. Took(o)
    BY <1>1, <2>1, RememberedIs DEF Took
  <2> QED
    BY <1>1, <1>2, <2>2 DEF JoinCall
<1>4. CASE ~Exists(i)
  BY <1>1, <1>2, <1>4 DEF JoinCall
<1> QED
  BY <1>3, <1>4

LEMMA TimedIsCall ==
    ASSUME ThreadsTypeOK, NEW o \in Objects, WaitTimed(o)
    PROVE  JoinCall(o)
<1> DEFINE i == m_thread_id[o]
<1>1. PICK now \in Clock, timeout \in Timeouts, res \in Results :
          Timed(o, now, timeout, res)
  BY WaitTimedIs
<1>2. phase[o] # "new" /\ UNCHANGED <<m_thread_id, owner>>
  BY WaitTimedIs
<1>3. \A p \in Objects : past[p] \subseteq past'[p]
  <2>1. CASE res = "ok"
    BY <1>1, <2>1 DEF Timed, Remembered
  <2>2. CASE res # "ok"
    BY <1>1, <2>2 DEF Timed, ThreadsTypeOK
  <2> QED
    BY <2>1, <2>2
<1>4. CASE res = "ok"
  <2>1. Exists(i) /\ Joined(i) /\ phase' = [phase EXCEPT ![o] = "joined"]
    BY <1>1, <1>4 DEF Timed, TimedJoin, Zero
  <2>2. i \in Ids /\ thread[i] = "ended" /\ thread' = [thread EXCEPT ![i] = "free"]
    BY <2>1 DEF Exists, Joined
  <2>3. past' = Remembered(o, i, LateIf(now, timeout))
    BY <1>1, <1>4 DEF Timed
  <2>4. Took(o)
    BY <2>2, <2>3, RememberedIs DEF Took
  <2> QED
    BY <1>2, <1>3, <2>1, <2>4 DEF JoinCall
<1>5. CASE res = "ETIMEDOUT"
  BY <1>1, <1>2, <1>3, <1>5 DEF Timed, TimedJoin, Zero, JoinCall
<1>6. CASE res = "EINVAL"
  <2>1. /\ ~Valid(Deadline(now, timeout)) /\ UNCHANGED thread
        /\ phase' = [phase EXCEPT ![o] = "joined"]
        /\ past' = [past EXCEPT ![o] = @ \cup LateIf(now, timeout)]
    BY <1>1, <1>6 DEF Timed, TimedJoin, Zero
  <2>2. LateIf(now, timeout) = {"late"}
    BY <2>1, DeadlineValid DEF LateIf
  <2>3. "late" \in past'[o]
    BY <2>1, <2>2 DEF ThreadsTypeOK
  <2> QED
    BY <1>2, <1>3, <2>1, <2>3 DEF JoinCall
<1>7. CASE res = "ESRCH"
  BY <1>1, <1>2, <1>3, <1>7 DEF Timed, TimedJoin, Zero, JoinCall
<1> QED
  BY <1>4, <1>5, <1>6, <1>7 DEF Results

LEMMA CallStep ==
    ASSUME OwnerInv, NEW o \in Objects, JoinCall(o)
    PROVE  OwnsIts' /\ HasOwner' /\ ZeroMeansEnded' /\ NoneLost'
<1> USE DEF OwnerInv, ThreadsTypeOK
<1>1. /\ m_thread_id' = m_thread_id /\ owner' = owner /\ phase[o] # "new"
      /\ \A p \in Objects : past[p] \subseteq past'[p]
  BY DEF JoinCall
<1>2. \A j \in Ids : thread'[j] \in {thread[j], "free"}
  BY DEF JoinCall, Took
<1>6. phase' = phase \/ phase' = [phase EXCEPT ![o] = "joined"]
  BY DEF JoinCall
<1>7. \A p \in Objects : /\ (phase'[p] = "created" => phase[p] = "created")
                          /\ (phase'[p] = "new" => phase[p] = "new")
  BY <1>6
<1>3. HasOwner' /\ NoneLost'
  <2>1. HasOwner'
    BY <1>1, <1>2, <1>7 DEF HasOwner
  <2> SUFFICES ASSUME NEW j \in Ids, thread'[j] # "free"
               PROVE  \/ m_thread_id'[owner'[j]] = j
                      \/ past'[owner'[j]] \cap {"late", "again"} # {}
    BY <2>1 DEF NoneLost
  <2>2. thread[j] # "free" /\ owner[j] \in Objects
    BY <1>2 DEF HasOwner
  <2>3. past[owner[j]] \subseteq past'[owner[j]]
    BY <1>1, <2>2
  <2> QED
    BY <1>1, <2>2, <2>3 DEF NoneLost
<1>4. OwnsIts'
  <2> SUFFICES ASSUME NEW p \in Objects, phase'[p] = "created",
                      past'[p] \cap {"failed", "stolen"} = {}
               PROVE  /\ m_thread_id[p] \in Ids
                      /\ owner[m_thread_id[p]] = p /\ thread'[m_thread_id[p]] # "free"
    BY <1>1 DEF OwnsIts
  <2>1. /\ m_thread_id[p] \in Ids
        /\ owner[m_thread_id[p]] = p /\ thread[m_thread_id[p]] # "free"
    <3>1. past[p] \cap {"failed", "stolen"} = {}
      BY <1>1
    <3> QED
      BY <1>7, <3>1 DEF OwnsIts
  <2>2. CASE Took(o) /\ phase' = [phase EXCEPT ![o] = "joined"]
    <3>1. p # o
      BY <2>2
    <3>2. m_thread_id[o] # m_thread_id[p]
      BY <2>1, <2>2, <3>1 DEF Took
    <3> QED
      BY <2>1, <2>2, <3>2 DEF Took
  <2>3. CASE UNCHANGED thread
    BY <2>1, <2>3
  <2> QED
    BY <2>2, <2>3 DEF JoinCall
<1>5. ZeroMeansEnded'
  <2> SUFFICES ASSUME NEW p \in Objects, NEW i \in Ids, phase'[p] = "joined",
                      "late" \notin past'[p], m_thread_id[p] = i, owner[i] = p
               PROVE  thread'[i] = "free"
    BY <1>1 DEF ZeroMeansEnded
  <2>1. CASE phase[p] = "joined"
    <3>1. thread[i] = "free"
      BY <1>1, <2>1 DEF ZeroMeansEnded
    <3> QED
      BY <1>2, <3>1
  <2>2. CASE phase[p] # "joined"
    <3>1. p = o
      BY <1>6, <2>2
    <3>2. CASE Took(o)
      BY <3>1, <3>2 DEF Took
    <3>3. CASE ~Took(o)
      BY <2>2, <3>1, <3>3 DEF JoinCall, Exists
    <3> QED
      BY <3>2, <3>3
  <2> QED
    BY <2>1, <2>2
<1> QED
  BY <1>3, <1>4, <1>5

LEMMA CreateStep ==
    ASSUME OwnerInv, NEW o \in Objects, Create(o)
    PROVE  OwnsIts' /\ HasOwner' /\ ZeroMeansEnded' /\ NoneLost'
<1> USE DEF OwnerInv, ThreadsTypeOK
<1>1. phase' = [phase EXCEPT ![o] = "created"]
  BY DEF Create
<1>2. ASSUME NEW i \in Ids, thread[i] = "free",
             thread' = [thread EXCEPT ![i] = "runs"],
             owner' = [owner EXCEPT ![i] = o],
             m_thread_id' = [m_thread_id EXCEPT ![o] = i],
             past' = [past EXCEPT ![o] = (@ \ {"failed", "stolen"}) \cup Again(o)]
      PROVE  OwnsIts' /\ HasOwner' /\ ZeroMeansEnded' /\ NoneLost'
  <2>1. OwnsIts'
    BY <1>1, <1>2 DEF OwnsIts
  <2>2. HasOwner'
    BY <1>1, <1>2 DEF HasOwner
  <2>3. ZeroMeansEnded'
    BY <1>1, <1>2 DEF ZeroMeansEnded
  <2>4. NoneLost'
    <3> SUFFICES ASSUME NEW j \in Ids, thread'[j] # "free", j # i
                 PROVE  \/ m_thread_id'[owner'[j]] = j
                        \/ past'[owner'[j]] \cap {"late", "again"} # {}
      BY <1>2 DEF NoneLost
    <3>1. thread[j] # "free" /\ owner'[j] = owner[j] /\ owner[j] \in Objects
      BY <1>2 DEF HasOwner
    <3>2. CASE owner[j] # o
      BY <1>2, <3>1, <3>2 DEF NoneLost
    <3>3. CASE owner[j] = o
      <4>1. CASE phase[o] = "created"
        BY <1>2, <3>1, <3>3, <4>1 DEF Again
      <4>2. CASE phase[o] = "joined"
        <5>1. m_thread_id[o] = j => "late" \in past[o]
          BY <3>1, <3>3, <4>2 DEF ZeroMeansEnded
        <5>2. past[o] \cap {"late", "again"} # {}
          BY <3>1, <3>3, <5>1 DEF NoneLost
        <5> QED
          BY <1>2, <3>1, <3>3, <5>2
      <4> QED
        BY <3>1, <3>3, <4>1, <4>2 DEF HasOwner
    <3> QED
      BY <3>2, <3>3
  <2> QED
    BY <2>1, <2>2, <2>3, <2>4
<1>3. CASE /\ past' = [past EXCEPT ![o] = @ \cup {"failed"} \cup Again(o)]
           /\ UNCHANGED <<m_thread_id, thread, owner>>
  <2>1. OwnsIts'
    BY <1>1, <1>3 DEF OwnsIts
  <2>2. HasOwner' /\ ZeroMeansEnded' /\ NoneLost'
    BY <1>1, <1>3 DEF HasOwner, ZeroMeansEnded, NoneLost
  <2> QED
    BY <2>1, <2>2
<1> QED
  BY <1>2, <1>3 DEF Create, Stored

LEMMA OwnerInductive == ThreadsSpec => []OwnerInv
<1>1. ThreadsInit => OwnerInv
  BY DEF ThreadsInit, OwnerInv, ThreadsTypeOK, OwnsIts, HasOwner, ZeroMeansEnded,
     NoneLost
<1>2. OwnerInv /\ ThreadsTypeOK' /\ [ThreadsNext]_threadVars => OwnerInv'
  <2> SUFFICES ASSUME OwnerInv, [ThreadsNext]_threadVars
               PROVE  OwnsIts' /\ HasOwner' /\ ZeroMeansEnded' /\ NoneLost'
    BY DEF OwnerInv
  <2>1. CASE UNCHANGED threadVars
    BY <2>1 DEF threadVars, OwnerInv, OwnsIts, HasOwner, ZeroMeansEnded, NoneLost
  <2>2. ASSUME NEW o \in Objects, Create(o)
        PROVE  OwnsIts' /\ HasOwner' /\ ZeroMeansEnded' /\ NoneLost'
    BY <2>2, CreateStep
  <2>3. ASSUME NEW o \in Objects, WaitForever(o) \/ WaitTimed(o)
        PROVE  OwnsIts' /\ HasOwner' /\ ZeroMeansEnded' /\ NoneLost'
    BY <2>3, ForeverIsCall, TimedIsCall, CallStep DEF OwnerInv
  <2>4. ASSUME NEW i \in Ids, ThreadEnds(i)
        PROVE  OwnsIts' /\ HasOwner' /\ ZeroMeansEnded' /\ NoneLost'
    BY <2>4 DEF ThreadEnds, OwnerInv, ThreadsTypeOK, OwnsIts, HasOwner,
       ZeroMeansEnded, NoneLost
  <2> QED
    BY <2>1, <2>2, <2>3, <2>4 DEF ThreadsNext, CloseThread
<1> QED
  BY <1>1, <1>2, ThreadsTypeCorrect, PTL DEF ThreadsSpec

(* The first join after a create() that made a thread takes that thread,     *)
(* unless another object has joined it before; for any use of the objects,   *)
(* joins in pairs and failing create() included.                             *)
THEOREM JoinsItsOwn == ThreadsSpec => JoinsOwn
<1> DEFINE Own == \A o \in Objects, i \in Ids :
         phase[o] = "created" /\ phase'[o] = "joined" /\ thread[i] = "ended" /\ thread'[i] = "free"
            => owner[i] = o \/ past[o] \cap {"failed", "stolen"} # {}
<1>1. OwnerInv /\ [ThreadsNext]_threadVars => [Own]_threadVars
  <2> SUFFICES ASSUME OwnerInv, [ThreadsNext]_threadVars, NEW o \in Objects, NEW i \in Ids,
                      phase[o] = "created", phase'[o] = "joined",
                      thread[i] = "ended", thread'[i] = "free"
               PROVE  owner[i] = o \/ past[o] \cap {"failed", "stolen"} # {}
    OBVIOUS
  <2> USE DEF OwnerInv, ThreadsTypeOK
  <2>1. ~UNCHANGED threadVars /\ \A j \in Ids : ~ThreadEnds(j)
    BY DEF threadVars, ThreadEnds
  <2>2. \A p \in Objects : ~Create(p)
    BY DEF Create
  <2>3. PICK p \in Objects : JoinCall(p)
    BY <2>1, <2>2, ForeverIsCall, TimedIsCall DEF ThreadsNext, CloseThread
  <2>4. p = o
    BY <2>3 DEF JoinCall
  <2>5. i = m_thread_id[o]
    BY <2>3, <2>4 DEF JoinCall, Took
  <2> QED
    BY <2>5 DEF OwnsIts
<1> QED
  BY <1>1, OwnerInductive, PTL DEF ThreadsSpec, JoinsOwn

(* 0 from wait() or close() means that the object's thread has ended, unless *)
(* a deadline reached into the next second; whatever create() failed and     *)
(* however often the objects join.                                           *)
THEOREM ZeroIsTheEnd == ThreadsSpec => []ZeroMeansEnded
<1>1. OwnerInv => ZeroMeansEnded
  BY DEF OwnerInv
<1> QED
  BY <1>1, OwnerInductive, PTL

(* A thread that was not joined can still be joined by the object that made  *)
(* it, if that object creates anew only after 0 from wait() or close().      *)
THEOREM NoThreadLost == ThreadsSpec => []NoneLost
<1>1. OwnerInv => NoneLost
  BY DEF OwnerInv
<1> QED
  BY <1>1, OwnerInductive, PTL
=============================================================================
