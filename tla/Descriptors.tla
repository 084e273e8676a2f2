---------------------------- MODULE Descriptors ----------------------------
(***************************************************************************)
(* The objects of the library that own a descriptor of the process, and    *)
(* the process's table of descriptors, which gives the lowest free number  *)
(* to the next open().  The classes differ in what they remember after an  *)
(* error and after close().  The application has files of its own, each    *)
(* locked with flock().                                                    *)
(***************************************************************************)
EXTENDS Integers, FiniteSets

CONSTANTS
    Socks,     \* CTcpSock, tcp_sock.cpp
    Files,     \* CFile, cfile.cpp
    Udps,      \* Udp, udp.cpp
    Mems,      \* CSharedMem, cthread.cpp
    Ports,     \* xserial::ComPort, xserial.cpp
    Apps,      \* the application's files
    Nobody,
    Numbers,   \* the numbers that are free when the program starts, 0 among
               \* them if it was started without standard input
    CastSize,  \* bound: objects that take part in one behaviour
    MaxSlips   \* bound: objects that are misused or badly set up

Owners == Socks \cup Files \cup Udps \cup Mems \cup Ports \cup Apps

ASSUME DescriptorsAssumption ==
    /\ Numbers \subseteq Nat /\ CastSize \in Nat /\ MaxSlips \in Nat
    /\ Nobody \notin Owners
    /\ Udps \cap (Socks \cup Files \cup Mems \cup Ports \cup Apps) = {}
    /\ Mems \cap (Socks \cup Files \cup Ports \cup Apps) = {}
    /\ Ports \cap (Socks \cup Files \cup Apps) = {}
    /\ Apps \cap (Socks \cup Files) = {} /\ Socks \cap Files = {}

VARIABLES
    cast,      \* the objects that take part, for good
    table,     \* number -> the object that opened it, or Nobody
    flocked,    \* the numbers whose open file is locked
    hold,      \* object -> its member (m_sd, m_hfile, sd, m_fd, hComPort)
    inUse,     \* the objects that the application has open()ed, failed calls
               \* included, and not yet close()d
    isOpenPort,  \* the ports whose member isOpenPort is set
    closing,   \* the port between ::close() and flock(), or Nobody
    threaded,  \* several threads use the objects, for good
    untidy,    \* the objects that were opened or closed twice in a row
    botched,   \* the ports that could be opened but not set up
    robbed     \* the objects whose descriptor somebody else has closed

kernelVars == <<table, flocked, robbed>>
fdVars == <<cast, table, flocked, hold, inUse, isOpenPort, closing, threaded, untidy,
            botched, robbed>>

FdInit ==
    /\ cast \in SUBSET Owners /\ Cardinality(cast) = CastSize
    /\ table = [n \in Numbers |-> Nobody]
    /\ flocked = {}
    /\ \E junk \in Numbers \cup {-1} :
          hold = [o \in Owners |-> IF o \in Files THEN junk
                                   ELSE IF o \in Mems \cup Ports THEN 0 ELSE -1]
    /\ inUse = {} /\ isOpenPort = {} /\ closing = Nobody
    /\ threaded \in BOOLEAN
    /\ untidy = {} /\ botched = {} /\ robbed = {}

\* The kernel's part of open(), socket() and shm_open(), and of close(n).
Fresh(n) == /\ n \in Numbers /\ table[n] = Nobody
            /\ \A m \in Numbers : m < n => table[m] # Nobody

Opened(o, n) ==
    /\ Fresh(n)
    /\ table' = [table EXCEPT ![n] = o]
    /\ UNCHANGED <<flocked, robbed>>

IsOpen(n) == n \in Numbers /\ table[n] # Nobody

Closed(o, n) ==
    IF IsOpen(n)
      THEN /\ table' = [table EXCEPT ![n] = Nobody]
           /\ flocked' = flocked \ {n}
           /\ robbed' = robbed \cup ({table[n]} \ {o})
      ELSE UNCHANGED kernelVars

Holds(o, n) == hold' = [hold EXCEPT ![o] = n]

FewSlips == Cardinality(untidy') + Cardinality(botched') <= MaxSlips

\* The application's view: open() and close() should take turns.
Opening(o) ==
    /\ inUse' = inUse \cup {o}
    /\ untidy' = untidy \cup (inUse \cap {o})
    /\ UNCHANGED <<closing, threaded>>
Closing(o) ==
    /\ inUse' = inUse \ {o}
    /\ untidy' = untidy \cup ({o} \ inUse)
    /\ UNCHANGED threaded

-----------------------------------------------------------------------------
\* CTcpSock: the result of socket() is stored; setsockopt() may fail after it.
SockOpen(o) ==
    /\ Opening(o) /\ UNCHANGED <<isOpenPort, botched>>
    /\ \/ \E n \in Numbers : Opened(o, n) /\ Holds(o, n)
       \/ UNCHANGED kernelVars /\ Holds(o, -1)

\* close() takes 0 for no socket, and keeps the number in m_sd.
SockClose(o) ==
    /\ Closing(o) /\ UNCHANGED <<hold, isOpenPort, closing, botched>>
    /\ IF hold[o] # 0 THEN Closed(o, hold[o]) ELSE UNCHANGED kernelVars

\* CFile: m_hfile has no value before the first open().
FileOpen(o) ==
    /\ Opening(o) /\ UNCHANGED <<isOpenPort, botched>>
    /\ \/ \E n \in Numbers : Opened(o, n) /\ Holds(o, n)
       \/ UNCHANGED kernelVars /\ Holds(o, -1)

FileClose(o) ==
    /\ Closing(o) /\ UNCHANGED <<hold, isOpenPort, closing, botched>>
    /\ Closed(o, hold[o])

\* Udp: init() and init_send() close the socket themselves when a later step
\* (an option, the membership, bind()) fails, and leave 0.
M_UdpUndone(o) ==                     \* no ::close() on an error path
    \E n \in Numbers : Opened(o, n) /\ Holds(o, 0)
UdpUndone(o) == UNCHANGED kernelVars /\ Holds(o, 0)

UdpInit(o) ==
    /\ Opening(o) /\ UNCHANGED <<isOpenPort, botched>>
    /\ \/ \E n \in Numbers : Opened(o, n) /\ Holds(o, n)
       \/ UdpUndone(o)

M_AfterUdpClose(o) == hold[o]         \* sd is not reset
AfterUdpClose(o) == -1

UdpClose(o) ==
    /\ Closing(o) /\ UNCHANGED <<isOpenPort, closing, botched>>
    /\ IF hold[o] > 0
         THEN Closed(o, hold[o]) /\ Holds(o, AfterUdpClose(o))
         ELSE UNCHANGED <<table, flocked, robbed, hold>>

\* ~Udp(), and a new object in its place.
UdpEnd(o) ==
    /\ inUse' = inUse \ {o}
    /\ UNCHANGED <<isOpenPort, closing, threaded, untidy, botched>>
    /\ Holds(o, -1)
    /\ IF hold[o] > 0 THEN Closed(o, hold[o]) ELSE UNCHANGED kernelVars

\* CSharedMem: create() stores the result of shm_open(); when mmap() fails it
\* returns nullptr with m_fd open.
ShmCreate(o) ==
    /\ Opening(o) /\ UNCHANGED <<isOpenPort, botched>>
    /\ \/ \E n \in Numbers : Opened(o, n) /\ Holds(o, n)
       \/ UNCHANGED kernelVars /\ Holds(o, -1)

ShmClose(o) ==
    /\ Closing(o) /\ UNCHANGED <<isOpenPort, closing, botched>>
    /\ IF hold[o] # 0
         THEN Closed(o, hold[o]) /\ Holds(o, 0)
         ELSE UNCHANGED <<table, flocked, robbed, hold>>

-----------------------------------------------------------------------------
\* ComPort: open(..) begins with close(), so it needs no tidy use.
PortOpen(o) ==
    /\ o \notin isOpenPort /\ closing # o
    /\ inUse' = inUse \cup {o}
    /\ UNCHANGED <<untidy, closing, threaded>>
    /\ \/ \E n \in Numbers :
            /\ Opened(o, n) /\ Holds(o, n)
            /\ \/ isOpenPort' = isOpenPort \cup {o} /\ UNCHANGED botched
               \/ botched' = botched \cup {o} /\ UNCHANGED isOpenPort
       \/ /\ UNCHANGED <<table, flocked, robbed, isOpenPort, botched>>
          /\ Holds(o, -1)

\* close() of an open port, and ~ComPort(): ::close(hComPort), and then
\* flock(hComPort, LOCK_UN), with other threads in between if there are any.
M_MustUnlock(o) == TRUE               \* flock() behind the test of the flag
MustUnlock(o) == o \in isOpenPort

PortClose(o) ==
    /\ closing = Nobody
    /\ IF o \in isOpenPort THEN Closed(o, hold[o]) ELSE UNCHANGED kernelVars
    /\ closing' = IF MustUnlock(o) THEN o ELSE Nobody
    /\ isOpenPort' = isOpenPort \ {o}
    /\ inUse' = inUse \ {o}
    /\ UNCHANGED <<hold, threaded, untidy, botched>>

PortUnlock(o) ==
    /\ closing = o
    /\ closing' = Nobody
    /\ flocked' = flocked \ {hold[o]}
    /\ UNCHANGED <<table, hold, isOpenPort, threaded, robbed>>
    /\ UNCHANGED <<inUse, untidy, botched>>

-----------------------------------------------------------------------------
\* The application opens a file of its own and locks it; closes it, or not.
AppOpen(o) ==
    /\ o \notin inUse /\ inUse' = inUse \cup {o}
    /\ \E n \in Numbers :
         /\ Fresh(n) /\ table' = [table EXCEPT ![n] = o]
         /\ flocked' = flocked \cup {n}
         /\ Holds(o, n)
    /\ UNCHANGED <<isOpenPort, closing, threaded, untidy, botched, robbed>>

AppClose(o) ==
    /\ o \in inUse /\ inUse' = inUse \ {o}
    /\ Closed(o, hold[o])
    /\ UNCHANGED <<hold, isOpenPort, closing, threaded, untidy, botched>>

FdOther ==
    \/ \E o \in Socks \cap cast : SockOpen(o) \/ SockClose(o)
    \/ \E o \in Files \cap cast : FileOpen(o) \/ FileClose(o)
    \/ \E o \in Udps \cap cast : UdpInit(o) \/ UdpClose(o) \/ UdpEnd(o)
    \/ \E o \in Mems \cap cast : ShmCreate(o) \/ ShmClose(o)
    \/ \E o \in Ports \cap cast : PortOpen(o)
    \/ \E o \in Apps \cap cast : AppOpen(o) \/ AppClose(o)

\* A single thread finishes close() of a port before it does anything else.
FdNext ==
    /\ \/ (closing = Nobody \/ threaded) /\ FdOther
       \/ \E o \in Ports \cap cast : PortClose(o) \/ PortUnlock(o)
    /\ FewSlips /\ UNCHANGED cast

FdSpec == FdInit /\ [][FdNext]_fdVars

-----------------------------------------------------------------------------
FdTypeOK ==
    /\ cast \subseteq Owners
    /\ table \in [Numbers -> Owners \cup {Nobody}]
    /\ flocked \subseteq Numbers
    /\ hold \in [Owners -> Numbers \cup {0, -1}]
    /\ inUse \subseteq Owners /\ untidy \subseteq Owners /\ robbed \subseteq Owners
    /\ isOpenPort \subseteq Ports /\ botched \subseteq Ports
    /\ closing \in Ports \cup {Nobody}
    /\ threaded \in BOOLEAN

(* No object ever closes a descriptor of another one, as long as every      *)
(* open() of a CTcpSock or a CFile is followed by exactly one close():      *)
(* these two forget nothing and test nothing.  Udp, CSharedMem and ComPort  *)
(* may be opened and closed in any order.                                   *)
ClosesOwn == untidy \cap (Socks \cup Files) = {} => robbed = {}

(* The classes that take the number 0 for no descriptor, and never close it.*)
TakenForNone(o, n) == n = 0 /\ o \in Socks \cup Udps \cup Mems

(* Nothing but number 0 is leaked by an object whose open()s, failed ones   *)
(* included, and close()s take turns: it holds the only descriptor it has   *)
(* opened.  A CTcpSock, Udp or CSharedMem that was given number 0, in a     *)
(* program without standard input, does leak it; a port leaks only what it  *)
(* could not set up.                                                        *)
NoLeak == \A n \in Numbers :
    LET o == table[n] IN
    o \notin untidy \cup botched \cup {Nobody} /\ ~TakenForNone(o, n) =>
        hold[o] = n /\ o \in inUse /\ (o \in Ports => o \in isOpenPort)

(* In a program of one thread the unlock that follows the close of a port   *)
(* never hits another file that is locked.                                  *)
LockKept == ~threaded => \A n \in Numbers : table[n] \in Apps => n \in flocked
=============================================================================
