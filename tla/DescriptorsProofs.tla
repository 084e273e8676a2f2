-------------------------- MODULE DescriptorsProofs --------------------------
(***************************************************************************)
(* Proofs about the owners of descriptors, for any number of objects, any  *)
(* numbers, and any number of misuses and failed set-ups.                  *)
(***************************************************************************)
EXTENDS Descriptors, TLAPS

(* Steps of one object.                                                     *)
Step(o) ==
    \/ o \in Socks /\ (SockOpen(o) \/ SockClose(o))
    \/ o \in Files /\ (FileOpen(o) \/ FileClose(o))
    \/ o \in Udps /\ (UdpInit(o) \/ UdpClose(o) \/ UdpEnd(o))
    \/ o \in Mems /\ (ShmCreate(o) \/ ShmClose(o))
    \/ o \in Ports /\ (PortOpen(o) \/ PortClose(o) \/ PortUnlock(o))
    \/ o \in Apps /\ (AppOpen(o) \/ AppClose(o))

LEMMA StepOfOne ==
  ASSUME FdTypeOK, FdNext
  PROVE  UNCHANGED cast /\ \E o \in Owners : Step(o)
BY DEF FdNext, FdOther, Step, Owners, FdTypeOK

(* What the kernel does, in the words of the proofs.                        *)
LEMMA OpenedEffect ==
  ASSUME FdTypeOK, NEW o \in Owners, NEW n \in Numbers, Opened(o, n)
  PROVE  /\ table[n] = Nobody /\ table' = [table EXCEPT ![n] = o]
         /\ UNCHANGED <<flocked, robbed>>
BY DEF Opened, Fresh

LEMMA ClosedEffect ==
  ASSUME FdTypeOK, NEW o \in Owners, NEW n, Closed(o, n)
  PROVE  /\ table' \in [Numbers -> Owners \cup {Nobody}]
         /\ \A m \in Numbers : m # n => table'[m] = table[m]
         /\ n \in Numbers => table'[n] = Nobody
         /\ flocked' \subseteq flocked /\ flocked \subseteq flocked' \cup {n}
         /\ robbed \subseteq robbed' /\ robbed' \subseteq Owners
         /\ n \in Numbers /\ table[n] = o => robbed' = robbed
         /\ n \notin Numbers => UNCHANGED kernelVars
BY DEF Closed, IsOpen, FdTypeOK, kernelVars

(* Every variable keeps its type.                                           *)
THEOREM FdTypeCorrect == FdSpec => []FdTypeOK
<1>1. FdInit => FdTypeOK
  <2> SUFFICES ASSUME FdInit PROVE FdTypeOK
    OBVIOUS
  <2>1. hold \in [Owners -> Numbers \cup {0, -1}]
    BY DEF FdInit
  <2> QED
    BY <2>1 DEF FdInit, FdTypeOK
<1>2. FdTypeOK /\ [FdNext]_fdVars => FdTypeOK'
  <2> SUFFICES ASSUME FdTypeOK, FdNext PROVE FdTypeOK'
    BY DEF FdTypeOK, fdVars
  <2>1. PICK o \in Owners : Step(o)
    BY StepOfOne
  <2>2. UNCHANGED cast
    BY StepOfOne
  <2>3. inUse' \subseteq Owners /\ untidy' \subseteq Owners
    BY <2>1 DEF Step, SockOpen, SockClose, FileOpen, FileClose, UdpInit, UdpClose,
       UdpEnd, ShmCreate, ShmClose, PortOpen, PortClose, PortUnlock, AppOpen,
       AppClose, Opening, Closing, FdTypeOK
  <2>4. /\ isOpenPort' \subseteq Ports /\ botched' \subseteq Ports
        /\ closing' \in Ports \cup {Nobody} /\ threaded' = threaded
    BY <2>1 DEF Step, SockOpen, SockClose, FileOpen, FileClose, UdpInit, UdpClose,
       UdpEnd, ShmCreate, ShmClose, PortOpen, PortClose, PortUnlock, AppOpen,
       AppClose, Opening, Closing, FdTypeOK
  <2>5. hold' \in [Owners -> Numbers \cup {0, -1}]
    BY <2>1 DEF Step, SockOpen, SockClose, FileOpen, FileClose, UdpInit, UdpClose,
       UdpEnd, ShmCreate, ShmClose, PortOpen, PortClose, PortUnlock, AppOpen,
       AppClose, Holds, AfterUdpClose, UdpUndone, FdTypeOK
  <2>6. \/ \E n \in Numbers : Opened(o, n)
        \/ Closed(o, hold[o])
        \/ UNCHANGED <<table, robbed>> /\ flocked' \subseteq flocked
        \/ \E n \in Numbers : /\ table' = [table EXCEPT ![n] = o]
                              /\ flocked' = flocked \cup {n} /\ robbed' = robbed
    BY <2>1 DEF Step, SockOpen, SockClose, FileOpen, FileClose, UdpInit, UdpClose,
       UdpEnd, ShmCreate, ShmClose, PortOpen, PortClose, PortUnlock, AppOpen,
       AppClose, UdpUndone, kernelVars
  <2>7. /\ table' \in [Numbers -> Owners \cup {Nobody}]
        /\ flocked' \subseteq Numbers /\ robbed' \subseteq Owners
    BY <2>6, OpenedEffect, ClosedEffect DEF FdTypeOK
  <2> QED
    BY <2>2, <2>3, <2>4, <2>5, <2>7 DEF FdTypeOK
<1> QED
  BY <1>1, <1>2, PTL DEF FdSpec

-----------------------------------------------------------------------------
(* The objects that would close the number they hold.                       *)
Live(o) ==
    \/ o \in Socks /\ o \in inUse /\ hold[o] \notin {0, -1}
    \/ o \in Files \cup Apps /\ o \in inUse /\ hold[o] # -1
    \/ o \in Udps /\ hold[o] > 0
    \/ o \in Mems /\ hold[o] \notin {0, -1}
    \/ o \in Ports /\ o \in isOpenPort

Tidy == untidy \cap (Socks \cup Files) = {}

LiveOwns == Tidy => \A o \in Owners : Live(o) => hold[o] \in Numbers /\ table[hold[o]] = o

\* One step: o opens n, closes what it holds, or leaves the table alone; no
\* other object notices.
Opens(o) == \E n \in Numbers :
    table[n] = Nobody /\ table' = [table EXCEPT ![n] = o] /\ hold'[o] = n /\ robbed' = robbed
Closes(o) == Live(o) /\ Closed(o, hold[o]) /\ ~Live(o)'
Quiet(o) == UNCHANGED <<table, robbed>> /\ (Live(o)' => Live(o) /\ hold'[o] = hold[o])

LEMMA OthersDoNotNotice ==
  ASSUME FdTypeOK, NEW o \in Owners, Step(o), NEW q \in Owners, q # o
  PROVE  hold'[q] = hold[q] /\ (Live(q)' <=> Live(q))
<1>1. hold'[q] = hold[q]
  BY DEF Step, SockOpen, SockClose, FileOpen, FileClose, UdpInit, UdpClose, UdpEnd,
     ShmCreate, ShmClose, PortOpen, PortClose, PortUnlock, AppOpen, AppClose,
     Holds, UdpUndone, FdTypeOK
<1>2. (q \in inUse' <=> q \in inUse) /\ (q \in isOpenPort' <=> q \in isOpenPort)
  BY DEF Step, SockOpen, SockClose, FileOpen, FileClose, UdpInit, UdpClose, UdpEnd,
     ShmCreate, ShmClose, PortOpen, PortClose, PortUnlock, AppOpen, AppClose,
     Opening, Closing
<1> QED
  BY <1>1, <1>2 DEF Live

LEMMA UntidyGrows ==
  ASSUME NEW o \in Owners, Step(o)
  PROVE  untidy \subseteq untidy' /\ botched \subseteq botched'
BY DEF Step, SockOpen, SockClose, FileOpen, FileClose, UdpInit, UdpClose, UdpEnd,
   ShmCreate, ShmClose, PortOpen, PortClose, PortUnlock, AppOpen, AppClose,
   Opening, Closing

LEMMA TidySteps ==
  ASSUME FdTypeOK, NEW o \in Owners, Step(o), Tidy'
  PROVE  Opens(o) \/ Closes(o) \/ Quiet(o)
<1> USE DescriptorsAssumption DEF FdTypeOK, Holds, Live
<1>1. CASE o \in Socks /\ (SockOpen(o) \/ SockClose(o))
  <2>1. CASE SockOpen(o)
    BY <1>1, <2>1, OpenedEffect DEF SockOpen, Opens, Quiet, kernelVars
  <2>2. CASE SockClose(o)
    <3>1. o \in inUse /\ o \notin inUse' /\ hold' = hold
          /\ IF hold[o] # 0 THEN Closed(o, hold[o]) ELSE UNCHANGED kernelVars
      BY <1>1, <2>2 DEF SockClose, Closing, Tidy
    <3>2. ~Live(o)'
      BY <1>1, <3>1
    <3>3. CASE hold[o] = -1
      BY <3>1, <3>2, <3>3, ClosedEffect DEF Quiet, kernelVars
    <3>4. CASE hold[o] = 0
      BY <3>1, <3>2, <3>4 DEF Quiet, kernelVars
    <3>5. CASE hold[o] \notin {0, -1}
      BY <1>1, <3>1, <3>2, <3>5 DEF Closes
    <3> QED
      BY <3>3, <3>4, <3>5
  <2> QED
    BY <1>1, <2>1, <2>2
<1>2. CASE o \in Files /\ (FileOpen(o) \/ FileClose(o))
  <2>1. CASE FileOpen(o)
    BY <1>2, <2>1, OpenedEffect DEF FileOpen, Opens, Quiet, kernelVars
  <2>2. CASE FileClose(o)
    <3>1. o \in inUse /\ o \notin inUse' /\ Closed(o, hold[o]) /\ hold' = hold
      BY <1>2, <2>2 DEF FileClose, Closing, Tidy
    <3>2. ~Live(o)'
      BY <1>2, <3>1
    <3>3. CASE hold[o] = -1
      BY <3>1, <3>2, <3>3, ClosedEffect DEF Quiet, kernelVars
    <3>4. CASE hold[o] # -1
      BY <1>2, <3>1, <3>2, <3>4 DEF Closes
    <3> QED
      BY <3>3, <3>4
  <2> QED
    BY <1>2, <2>1, <2>2
<1>3. CASE o \in Udps /\ (UdpInit(o) \/ UdpClose(o) \/ UdpEnd(o))
  <2>1. CASE UdpInit(o)
    BY <1>3, <2>1, OpenedEffect DEF UdpInit, UdpUndone, Opens, Quiet, kernelVars
  <2>2. CASE UdpClose(o) \/ UdpEnd(o)
    <3>1. CASE hold[o] > 0
      BY <1>3, <2>2, <3>1 DEF UdpClose, UdpEnd, AfterUdpClose, Closes
    <3>2. CASE ~(hold[o] > 0)
      BY <1>3, <2>2, <3>2 DEF UdpClose, UdpEnd, Quiet, kernelVars
    <3> QED
      BY <3>1, <3>2
  <2> QED
    BY <1>3, <2>1, <2>2
<1>4. CASE o \in Mems /\ (ShmCreate(o) \/ ShmClose(o))
  <2>1. CASE ShmCreate(o)
    BY <1>4, <2>1, OpenedEffect DEF ShmCreate, Opens, Quiet, kernelVars
  <2>2. CASE ShmClose(o) /\ hold[o] \in Numbers \ {0}
    BY <1>4, <2>2 DEF ShmClose, Closes
  <2>3. CASE ShmClose(o) /\ hold[o] = -1
    BY <1>4, <2>3, ClosedEffect DEF ShmClose, Quiet, kernelVars
  <2>4. CASE ShmClose(o) /\ hold[o] = 0
    BY <1>4, <2>4 DEF ShmClose, Quiet
  <2> QED
    BY <1>4, <2>1, <2>2, <2>3, <2>4
<1>5. CASE o \in Ports /\ (PortOpen(o) \/ PortClose(o) \/ PortUnlock(o))
  <2>1. CASE PortOpen(o)
    BY <1>5, <2>1, OpenedEffect DEF PortOpen, Opens, Quiet
  <2>2. CASE PortClose(o)
    BY <1>5, <2>2 DEF PortClose, Closes, Quiet, kernelVars
  <2>3. CASE PortUnlock(o)
    BY <1>5, <2>3 DEF PortUnlock, Quiet
  <2> QED
    BY <1>5, <2>1, <2>2, <2>3
<1>6. CASE o \in Apps /\ (AppOpen(o) \/ AppClose(o))
  <2>1. CASE AppOpen(o)
    BY <1>6, <2>1, ZenonT(60) DEF AppOpen, Fresh, Opens
  <2>2. CASE AppClose(o) /\ hold[o] # -1
    BY <1>6, <2>2 DEF AppClose, Closes
  <2>3. CASE AppClose(o) /\ hold[o] = -1
    BY <1>6, <2>3, ClosedEffect DEF AppClose, Quiet, kernelVars
  <2> QED
    BY <1>6, <2>1, <2>2, <2>3
<1> QED
  BY <1>1, <1>2, <1>3, <1>4, <1>5, <1>6 DEF Step

(* Under tidy use of CTcpSock and CFile nobody is robbed.                   *)
THEOREM NobodyIsRobbed == FdSpec => []ClosesOwn
<1> DEFINE Inv == LiveOwns /\ ClosesOwn
<1>1. FdInit => Inv
  BY DescriptorsAssumption DEF FdInit, LiveOwns, ClosesOwn, Live
<1>2. FdTypeOK /\ Inv /\ [FdNext]_fdVars => Inv'
  <2> SUFFICES ASSUME FdTypeOK, Inv, [FdNext]_fdVars, Tidy'
               PROVE  /\ robbed' = {}
                      /\ \A q \in Owners : Live(q)' =>
                            hold'[q] \in Numbers /\ table'[hold'[q]] = q
    BY DEF LiveOwns, ClosesOwn, Tidy
  <2>1. CASE UNCHANGED fdVars
    BY <2>1 DEF fdVars, LiveOwns, ClosesOwn, Tidy, Live
  <2>2. CASE FdNext
    <3>1. PICK o \in Owners : Step(o)
      BY <2>2, StepOfOne
    <3>2. Tidy
      BY <3>1, UntidyGrows DEF Tidy
    <3>3. /\ robbed = {}
          /\ \A q \in Owners : Live(q) => hold[q] \in Numbers /\ table[hold[q]] = q
      BY <3>2 DEF LiveOwns, ClosesOwn, Tidy
    <3>4. \A q \in Owners : q # o => hold'[q] = hold[q] /\ (Live(q)' <=> Live(q))
      BY <3>1, OthersDoNotNotice
    <3>5. CASE Opens(o)
      BY <3>3, <3>4, <3>5, DescriptorsAssumption DEF Opens, FdTypeOK
    <3>6. CASE Closes(o)
      <4>1. hold[o] \in Numbers /\ table[hold[o]] = o
        BY <3>3, <3>6 DEF Closes
      <4>2. /\ robbed' = robbed /\ ~Live(o)'
            /\ \A m \in Numbers : m # hold[o] => table'[m] = table[m]
        BY <3>6, <4>1, ClosedEffect DEF Closes
      <4> QED
        BY <3>3, <3>4, <4>1, <4>2
    <3>7. CASE Quiet(o)
      BY <3>3, <3>4, <3>7 DEF Quiet
    <3> QED
      BY <3>1, <3>5, <3>6, <3>7, TidySteps
  <2> QED
    BY <2>1, <2>2
<1> QED
  BY <1>1, <1>2, FdTypeCorrect, PTL DEF FdSpec

-----------------------------------------------------------------------------
(* What an object that was used in turns and set up well has open is what   *)
(* it holds.                                                                *)
Kept(o, n) == hold[o] = n /\ o \in inUse /\ (o \in Ports => o \in isOpenPort)

(* The step of such an object leaves it with what it then holds, if that.   *)
LEMMA KeptSteps ==
  ASSUME FdTypeOK, NEW o \in Owners, Step(o), o \notin untidy' \cup botched',
         \A n \in Numbers : table[n] = o /\ ~TakenForNone(o, n) => Kept(o, n),
         NEW m \in Numbers, table'[m] = o, ~TakenForNone(o, m)
  PROVE  Kept(o, m)'
<1> USE DescriptorsAssumption DEF FdTypeOK, Holds, Kept, TakenForNone
<1>1. CASE o \in Socks /\ (SockOpen(o) \/ SockClose(o))
  <2>1. CASE SockOpen(o)
    BY <1>1, <2>1, OpenedEffect DEF SockOpen, Opening, kernelVars
  <2>2. CASE SockClose(o)
    BY <1>1, <2>2, ClosedEffect DEF SockClose, Closing, kernelVars
  <2> QED
    BY <1>1, <2>1, <2>2
<1>2. CASE o \in Files /\ (FileOpen(o) \/ FileClose(o))
  <2>1. CASE FileOpen(o)
    BY <1>2, <2>1, OpenedEffect DEF FileOpen, Opening, kernelVars
  <2>2. CASE FileClose(o)
    BY <1>2, <2>2, ClosedEffect DEF FileClose, Closing
  <2> QED
    BY <1>2, <2>1, <2>2
<1>3. CASE o \in Udps /\ (UdpInit(o) \/ UdpClose(o) \/ UdpEnd(o))
  <2>1. CASE UdpInit(o)
    BY <1>3, <2>1, OpenedEffect DEF UdpInit, UdpUndone, Opening, kernelVars
  <2>2. CASE UdpClose(o) \/ UdpEnd(o)
    <3>1. CASE hold[o] > 0
      BY <1>3, <2>2, <3>1, ClosedEffect DEF UdpClose, UdpEnd
    <3>2. CASE ~(hold[o] > 0)
      BY <1>3, <2>2, <3>2 DEF UdpClose, UdpEnd, kernelVars
    <3> QED
      BY <3>1, <3>2
  <2> QED
    BY <1>3, <2>1, <2>2
<1>4. CASE o \in Mems /\ (ShmCreate(o) \/ ShmClose(o))
  <2>1. CASE ShmCreate(o)
    BY <1>4, <2>1, OpenedEffect DEF ShmCreate, Opening, kernelVars
  <2>2. CASE ShmClose(o)
    BY <1>4, <2>2, ClosedEffect DEF ShmClose
  <2> QED
    BY <1>4, <2>1, <2>2
<1>5. CASE o \in Ports /\ (PortOpen(o) \/ PortClose(o) \/ PortUnlock(o))
  <2>1. CASE PortOpen(o)
    BY <1>5, <2>1, OpenedEffect DEF PortOpen
  <2>2. CASE PortClose(o)
    BY <1>5, <2>2, ClosedEffect DEF PortClose, kernelVars
  <2>3. CASE PortUnlock(o)
    BY <1>5, <2>3 DEF PortUnlock
  <2> QED
    BY <1>5, <2>1, <2>2, <2>3
<1>6. CASE o \in Apps /\ (AppOpen(o) \/ AppClose(o))
  <2>1. CASE AppOpen(o)
    BY <1>6, <2>1 DEF AppOpen, Fresh
  <2>2. CASE AppClose(o)
    BY <1>6, <2>2, ClosedEffect DEF AppClose
  <2> QED
    BY <1>6, <2>1, <2>2
<1> QED
  BY <1>1, <1>2, <1>3, <1>4, <1>5, <1>6 DEF Step

(* The table changes in favour of the object that takes the step only.      *)
LEMMA OthersKeep ==
  ASSUME FdTypeOK, NEW o \in Owners, Step(o), NEW m \in Numbers
  PROVE  /\ table'[m] \in {table[m], o, Nobody}
         /\ \A q \in Owners, n \in Numbers : q # o /\ Kept(q, n) => Kept(q, n)'
<1>1. \/ \E n \in Numbers : Opened(o, n)
      \/ Closed(o, hold[o])
      \/ UNCHANGED <<table, robbed>>
      \/ \E n \in Numbers : table' = [table EXCEPT ![n] = o] /\ robbed' = robbed
  BY DEF Step, SockOpen, SockClose, FileOpen, FileClose, UdpInit, UdpClose,
     UdpEnd, ShmCreate, ShmClose, PortOpen, PortClose, PortUnlock, AppOpen,
     AppClose, UdpUndone, kernelVars
<1>2. table'[m] \in {table[m], o, Nobody}
  BY <1>1, OpenedEffect, ClosedEffect DEF FdTypeOK
<1>3. \A q \in Owners : q # o => (q \in inUse => q \in inUse')
                              /\ (q \in isOpenPort => q \in isOpenPort')
  BY DEF Step, SockOpen, SockClose, FileOpen, FileClose, UdpInit, UdpClose, UdpEnd,
     ShmCreate, ShmClose, PortOpen, PortClose, PortUnlock, AppOpen, AppClose,
     Opening, Closing
<1>4. \A q \in Owners : q # o => hold'[q] = hold[q]
  BY OthersDoNotNotice
<1> QED
  BY <1>2, <1>3, <1>4 DEF Kept

(* An object whose open()s and close()s take turns leaks no number but 0.   *)
THEOREM NothingIsLeaked == FdSpec => []NoLeak
<1> DEFINE Inv == \A n \in Numbers :
              table[n] \notin untidy \cup botched \cup {Nobody}
              /\ ~TakenForNone(table[n], n) => Kept(table[n], n)
<1>1. FdInit => Inv
  BY DEF FdInit
<1>2. FdTypeOK /\ Inv /\ [FdNext]_fdVars => Inv'
  <2> SUFFICES ASSUME FdTypeOK, Inv, [FdNext]_fdVars, NEW n \in Numbers,
                      table'[n] \notin untidy' \cup botched' \cup {Nobody},
                      ~TakenForNone(table'[n], n)
               PROVE  Kept(table[n], n)'
    OBVIOUS
  <2>1. CASE UNCHANGED fdVars
    BY <2>1 DEF fdVars, Kept
  <2>2. CASE FdNext
    <3>1. PICK o \in Owners : Step(o)
      BY <2>2, StepOfOne
    <3>2. untidy \subseteq untidy' /\ botched \subseteq botched'
      BY <3>1, UntidyGrows
    <3>3. CASE table'[n] = o
      <4>1. \A m \in Numbers : table[m] = o /\ ~TakenForNone(o, m) => Kept(o, m)
        BY <3>2, <3>3, DescriptorsAssumption
      <4> QED
        BY <3>1, <3>3, <4>1, KeptSteps
    <3>4. CASE table'[n] # o
      <4>1. table'[n] = table[n] /\ table[n] \in Owners
        BY <3>1, <3>4, OthersKeep DEF FdTypeOK
      <4>2. Kept(table[n], n)
        BY <3>2, <4>1
      <4> QED
        BY <3>1, <3>4, <4>1, <4>2, OthersKeep
    <3> QED
      BY <3>3, <3>4
  <2> QED
    BY <2>1, <2>2
<1>3. Inv => NoLeak
  BY DEF Kept, NoLeak
<1> QED
  BY <1>1, <1>2, <1>3, FdTypeCorrect, PTL DEF FdSpec

-----------------------------------------------------------------------------
(* Between ::close() and flock() of a port, a program of one thread opens   *)
(* nothing, so the number is not that of a locked file.                     *)
Unused == ~threaded => \A o \in Ports : closing = o =>
    \A n \in Numbers : n = hold[o] => table[n] \notin Apps

(* The unlock behind the close of a port costs no other file its lock.      *)
THEOREM LocksAreKept == FdSpec => []LockKept
<1> DEFINE Inv == Unused /\ LockKept
<1>1. FdInit => Inv
  BY DescriptorsAssumption DEF FdInit, Unused, LockKept, Owners
<1>2. FdTypeOK /\ Inv /\ [FdNext]_fdVars => Inv'
  <2> SUFFICES ASSUME FdTypeOK, Inv, [FdNext]_fdVars, ~threaded'
               PROVE  Inv'
    BY DEF Unused, LockKept
  <2> USE DescriptorsAssumption DEF FdTypeOK, Owners
  <2>1. CASE UNCHANGED fdVars
    BY <2>1 DEF fdVars, Unused, LockKept
  <2>2. CASE FdNext
    <3>1. ~threaded
      BY <2>2 DEF FdNext, FdOther, SockOpen, SockClose, FileOpen, FileClose, UdpInit,
         UdpClose, UdpEnd, ShmCreate, ShmClose, PortOpen, PortClose, PortUnlock,
         AppOpen, AppClose, Opening, Closing
    <3>2. \A n \in Numbers : table[n] \in Apps => n \in flocked
      BY <3>1 DEF LockKept
    <3>3. ASSUME NEW o \in Owners \ Apps, closing' = Nobody,
                 \/ \E n \in Numbers : Opened(o, n)
                 \/ Closed(o, hold[o])
                 \/ UNCHANGED kernelVars
          PROVE  Inv'
      <4>1. \A n \in Numbers : table'[n] \in Apps => n \in flocked'
        BY <3>2, <3>3, OpenedEffect, ClosedEffect DEF kernelVars
      <4> QED
        BY <3>3, <4>1 DEF Unused, LockKept
    <3>4. ASSUME FdOther, closing = Nobody PROVE Inv'
      <4>1. PICK o \in Owners :
                \/ o \in Socks /\ (SockOpen(o) \/ SockClose(o))
                \/ o \in Files /\ (FileOpen(o) \/ FileClose(o))
                \/ o \in Udps /\ (UdpInit(o) \/ UdpClose(o) \/ UdpEnd(o))
                \/ o \in Mems /\ (ShmCreate(o) \/ ShmClose(o))
                \/ o \in Ports /\ PortOpen(o)
                \/ o \in Apps /\ (AppOpen(o) \/ AppClose(o))
        BY <3>4 DEF FdOther
      <4>2. closing' = Nobody
        BY <3>4, <4>1 DEF SockOpen, SockClose, FileOpen, FileClose, UdpInit, UdpClose,
           UdpEnd, ShmCreate, ShmClose, PortOpen, AppOpen, AppClose, Opening
      <4>3. CASE o \in Apps /\ AppOpen(o)
        <5>1. \A n \in Numbers : table'[n] \in Apps => n \in flocked'
          BY <3>2, <4>3 DEF AppOpen
        <5> QED
          BY <4>2, <5>1 DEF Unused, LockKept
      <4>4. CASE o \in Apps /\ AppClose(o)
        <5>1. \A n \in Numbers : table'[n] \in Apps => n \in flocked'
          BY <3>2, <4>4, ClosedEffect DEF AppClose, kernelVars
        <5> QED
          BY <4>2, <5>1 DEF Unused, LockKept
      <4>5. CASE o \notin Apps
        <5>1. \/ \E n \in Numbers : Opened(o, n)
              \/ Closed(o, hold[o])
              \/ UNCHANGED kernelVars
          BY <4>1, <4>5 DEF SockOpen, SockClose, FileOpen, FileClose, UdpInit, UdpClose,
             UdpEnd, ShmCreate, ShmClose, PortOpen, UdpUndone, kernelVars
        <5> QED
          BY <3>3, <4>2, <4>5, <5>1
      <4> QED
        BY <4>1, <4>3, <4>4, <4>5
    <3>5. ASSUME NEW o \in Ports, PortClose(o) PROVE Inv'
      <4>1. /\ Closed(o, hold[o]) \/ (UNCHANGED kernelVars /\ closing' = Nobody)
            /\ closing' \in {o, Nobody} /\ hold' = hold
        BY <3>5 DEF PortClose, MustUnlock
      <4>2. \A n \in Numbers : table'[n] \in Apps => n \in flocked'
        BY <3>2, <4>1, ClosedEffect DEF kernelVars
      <4>3. closing' = o => \A n \in Numbers : n = hold[o] => table'[n] = Nobody
        BY <4>1, ClosedEffect
      <4> QED
        BY <4>1, <4>2, <4>3 DEF Unused, LockKept
    <3>6. ASSUME NEW o \in Ports, PortUnlock(o) PROVE Inv'
      <4>1. \A n \in Numbers : n = hold[o] => table[n] \notin Apps
        BY <3>1, <3>6 DEF PortUnlock, Unused
      <4>2. \A n \in Numbers : table'[n] \in Apps => n \in flocked'
        BY <3>2, <3>6, <4>1 DEF PortUnlock
      <4> QED
        BY <3>6, <4>2 DEF PortUnlock, Unused, LockKept
    <3> QED
      BY <2>2, <3>1, <3>4, <3>5, <3>6 DEF FdNext
  <2> QED
    BY <2>1, <2>2
<1>3. Inv => LockKept
  OBVIOUS
<1> QED
  BY <1>1, <1>2, <1>3, FdTypeCorrect, PTL DEF FdSpec
=============================================================================
