----------------------------- MODULE SerialLine -----------------------------
(***************************************************************************)
(* Class xserial::ComPort, opening: which device an open() takes, and how  *)
(* it sets up the line.  The kernel keeps the settings of a device when it *)
(* is closed, and on Linux openPort() starts from them.                    *)
(***************************************************************************)
EXTENDS Integers

CONSTANTS
    Plain,      \* devices <<name, number>> with a driver of their own,
    Old,        \* with the driver serial8250,
    Unknown,    \* those of them that are no real port (PORT_UNKNOWN),
    Coms,       \* and the devices of a Windows system
    Asks,       \* parameters of open(): [speed, parity, bits, stop]
    Speeds,     \* the rates of the table in openPort()
    Left,       \* termios settings that drivers and other programs leave behind
    CharSize,   \* values of an unsigned char, on a smaller scale
    NoDevice

ASSUME LineAssumption ==
    /\ CharSize \in Nat \ {0} /\ Unknown \subseteq Old
    /\ Left \subseteq [PARENB : BOOLEAN, PARODD : BOOLEAN, CSTOPB : BOOLEAN,
                        CSIZE : SUBSET {1, 2}, speed : Speeds]
    /\ Plain \cup Old \subseteq STRING \X Nat /\ Coms \subseteq {"COM"} \X Nat
    /\ NoDevice \notin Plain \cup Old \cup Coms

Devices == Plain \cup Old \cup Coms

VARIABLES
    windows,   \* the build, for good
    plugged,   \* the devices that are there
    tty,       \* device -> termios as Linux keeps it: parts of c_cflag, speed
    dcb,       \* device -> DCB as Windows keeps it
    comPortName, autoFoundComPort,   \* the members of these names
    found,     \* the device that foundComPort() has decided for
    at,        \* the device that is open, or NoDevice
    auto,      \* it was opened by an open() without a number
    asked,     \* what the last open() asked for
    oddOnce    \* the devices whose PARODD this object or another program has set

lineVars == <<windows, plugged, tty, dcb, comPortName, autoFoundComPort, found,
              at, auto, asked, oddOnce>>

Default == [speed |-> 9600, parity |-> "none", bits |-> 8, stop |-> "one"]

\* What openPort() makes of the DCB: fParity, the check of what is received,
\* is off whatever parity is asked for.
Dcb(ask, check) == [speed |-> ask.speed, parity |-> ask.parity,
                    bits |-> ask.bits, stop |-> ask.stop, fParity |-> check]

LineInit ==
    /\ windows \in BOOLEAN
    /\ plugged = IF windows THEN Coms ELSE Plain \cup Old
    /\ \E t \in Left : /\ tty = [d \in Devices |-> t]
                       /\ oddOnce = IF t.PARODD THEN Devices ELSE {}
    /\ dcb = [d \in Devices |-> Dcb(Default, TRUE)]
    /\ comPortName = "ttyS" /\ autoFoundComPort = 0
    /\ found = NoDevice /\ at = NoDevice /\ auto = FALSE
    /\ asked = Default

\* A device comes or goes, or another program sets it up, while it is not in
\* use here.
Elsewhere(d, t) ==
    /\ d # at
    /\ plugged' \in {plugged \ {d}, plugged \cup {d}}
    /\ IF windows
         THEN /\ \E check \in BOOLEAN :
                    dcb' = [dcb EXCEPT ![d] = Dcb(Default, check)]
              /\ UNCHANGED <<tty, oddOnce>>
         ELSE /\ tty' = [tty EXCEPT ![d] = t]
              /\ oddOnce' = IF t.PARODD THEN oddOnce \cup {d} ELSE oddOnce \ {d}
              /\ UNCHANGED dcb
    /\ UNCHANGED <<windows, comPortName, autoFoundComPort, found, at, auto, asked>>

-----------------------------------------------------------------------------
\* The parts of c_cflag.  The bits of CSIZE are CS6 = {1}, CS7 = {2}, CS8 both.
WithParity(t, ask) ==
    CASE ask.parity = "even" -> [t EXCEPT !.PARENB = TRUE]
      [] ask.parity = "odd"  -> [t EXCEPT !.PARENB = FALSE, !.PARODD = TRUE]
      [] OTHER               -> [t EXCEPT !.PARENB = FALSE]

\* CSTOPB is set for two stop bits, and cleared again behind the switch.
WithStop(t, ask) == [t EXCEPT !.CSTOPB = FALSE]

CS == [b \in 5 .. 8 |-> CASE b = 5 -> {} [] b = 6 -> {1} [] b = 7 -> {2}
                          [] b = 8 -> {1, 2}]
M_WithSize(t, ask) == [t EXCEPT !.CSIZE = @ \cup CS[ask.bits]]   \* no ~CSIZE
WithSize(t, ask) == [t EXCEPT !.CSIZE = CS[ask.bits]]

WithSpeed(t, ask) == [t EXCEPT !.speed = ask.speed]

Configured(t, ask) ==
    WithSize(WithStop(WithParity(WithSpeed(t, ask), ask), ask), ask)

Possible(ask) ==
    /\ ask.speed \in Speeds
    /\ ask.parity \notin {"mark", "space"}
    /\ ask.stop = "one5" => ask.bits < 6

\* openPort(), Linux.  Its system calls may fail even then.
OpenLinux(d, ask) ==
    \/ /\ ask.bits \in 5 .. 8 /\ d \in plugged /\ Possible(ask)
       /\ tty' = [tty EXCEPT ![d] = Configured(@, ask)]
       /\ oddOnce' = oddOnce \cup (IF ask.parity = "odd" THEN {d} ELSE {})
       /\ at' = d
       /\ UNCHANGED dcb
    \/ at' = NoDevice /\ UNCHANGED <<tty, dcb, oddOnce>>

\* openPort(), Windows: every field of the DCB is assigned; the timeouts are
\* set after it, and may fail.
OpenWindows(d, ask) ==
    \/ /\ d[2] # 0 /\ ask.bits \in 5 .. 8 /\ d \in plugged
       /\ ask.stop = "one5" => ask.bits < 6
       /\ ask.stop = "two" => ask.bits # 5
       /\ dcb' = [dcb EXCEPT ![d] = Dcb(ask, FALSE)]
       /\ at' \in {d, NoDevice}
       /\ UNCHANGED <<tty, oddOnce>>
    \/ at' = NoDevice /\ UNCHANGED <<tty, dcb, oddOnce>>

openPort(d, ask) ==
    /\ asked' = ask
    /\ IF windows THEN OpenWindows(d, ask) ELSE OpenLinux(d, ask)
    /\ UNCHANGED <<windows, plugged>>

NameOf == IF windows THEN "COM" ELSE comPortName

\* open(numComPort, ..); each open() begins with close().
OpenNumber(num, ask) ==
    /\ openPort(<<NameOf, num>>, ask)
    /\ auto' = FALSE
    /\ UNCHANGED <<comPortName, autoFoundComPort, found>>

-----------------------------------------------------------------------------
\* The list of ports: devices with a driver, those of serial8250 last and only
\* if they answer.  The order within each part is that of the directory.
Registered == plugged \cap Plain
Probed == (plugged \cap Old) \ Unknown
FirstOfList == IF Registered # {} THEN Registered ELSE Probed

M_Named(d) == comPortName             \* only the number is taken
Named(d) == d[1]

FoundLinux ==
    /\ ~windows
    /\ \E d \in FirstOfList :
         /\ comPortName' = Named(d)
         /\ autoFoundComPort' = d[2] % CharSize
         /\ found' = d

\* On Windows the number that was found once is kept.
FoundWindows ==
    /\ windows
    /\ \E d \in plugged :
         IF autoFoundComPort = 0
           THEN autoFoundComPort' = d[2] % CharSize /\ found' = d
           ELSE UNCHANGED <<autoFoundComPort, found>>
    /\ UNCHANGED comPortName

\* open() and open(baudRate, ..) without a number.
OpenFirst(ask) ==
    /\ FoundLinux \/ FoundWindows
    /\ openPort(<<IF windows THEN "COM" ELSE comPortName', autoFoundComPort'>>, ask)
    /\ auto' = TRUE

\* close(), and an open() that finds no port.
ClosePort ==
    /\ at # NoDevice
    /\ at' = NoDevice
    /\ UNCHANGED <<windows, plugged, tty, dcb, comPortName, autoFoundComPort,
                   found, auto, asked, oddOnce>>

LineNext ==
    \/ \E d \in IF windows THEN Coms ELSE Plain \cup Old, t \in Left :
          Elsewhere(d, t)
    \/ \E ask \in Asks :
          \/ OpenFirst(ask)
          \/ \E num \in {d[2] : d \in Devices} : OpenNumber(num, ask)
    \/ ClosePort

LineSpec == LineInit /\ [][LineNext]_lineVars

-----------------------------------------------------------------------------
(* Nothing but PARODD of an open line comes from what was done with the     *)
(* device before.  On Linux speed and data bits are those of the last       *)
(* open(), there is one stop bit whatever was asked (see TwoAreTwo), parity  *)
(* is on if and only if it was asked to be even (see OddIsOdd), and PARODD,  *)
(* which makes it odd, is set only where an open() or another program has    *)
(* set it.  On Windows the DCB says what was asked, and the parity of what   *)
(* is received is not checked.                                              *)
NothingLeftOver == at # NoDevice =>
    IF windows
      THEN dcb[at] = [fParity |-> FALSE, speed |-> asked.speed,
                      parity |-> asked.parity, bits |-> asked.bits,
                      stop |-> asked.stop]
      ELSE LET t == tty[at] IN
           /\ t.speed = asked.speed /\ t.CSIZE = CS[asked.bits] /\ ~t.CSTOPB
           /\ t.PARENB <=> asked.parity = "even"
           /\ t.PARODD => at \in oddOnce

(* An open() without a number opens the port that the search has found,     *)
(* whatever was opened before, if its number fits into an unsigned char; on *)
(* Windows, the port that was found first in the life of the object.        *)
AutoFirst == auto /\ at # NoDevice /\ found[2] < CharSize => at = found

(* "COM_PORT_ODDPARITY: check for oddness" (xserial.hpp:76): a port that    *)
(* was asked for odd parity checks it.                                      *)
OddIsOdd == ~windows /\ at # NoDevice /\ asked.parity = "odd" =>
    tty[at].PARENB /\ tty[at].PARODD

(* "COM_PORT_TWOSTOPBITS: 2 stop bits" (xserial.hpp:83): a port that was    *)
(* asked for two stop bits sends two.                                       *)
TwoAreTwo == ~windows /\ at # NoDevice /\ asked.stop = "two" => tty[at].CSTOPB
=============================================================================
