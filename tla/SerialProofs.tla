---------------------------- MODULE SerialProofs ----------------------------
(***************************************************************************)
(* Proofs about class ComPort: opening a port, for any devices and         *)
(* settings, and reading from it, for any bytes and any number of polls.   *)
(***************************************************************************)
EXTENDS SerialLine, SerialReader, SequenceTheorems, TLAPS

LEMMA SmallMod ==
  ASSUME NEW a \in Nat, NEW b \in Nat \ {0}, a < b
  PROVE  a % b = a
BY Z3

-----------------------------------------------------------------------------
Lines == [PARENB : BOOLEAN, PARODD : BOOLEAN, CSTOPB : BOOLEAN,
          CSIZE : SUBSET {1, 2}, speed : Speeds]
Dcbs == {Dcb(ask, TRUE) : ask \in Asks \cup {Default}}
        \cup {Dcb(ask, FALSE) : ask \in Asks \cup {Default}}

LineTypes ==
    /\ windows \in BOOLEAN
    /\ plugged \subseteq (IF windows THEN Coms ELSE Plain \cup Old)
    /\ tty \in [Devices -> Lines]
    /\ dcb \in [Devices -> Dcbs]
    /\ at \in Devices \cup {NoDevice}

\* PARODD is set only where somebody has set it; a port that was found
\* on Windows is remembered by its number.
LineInv ==
    /\ LineTypes
    /\ \A d \in Devices : tty[d].PARODD => d \in oddOnce
    /\ windows /\ autoFoundComPort # 0 =>
          found \in Coms /\ autoFoundComPort = found[2] % CharSize
    /\ NothingLeftOver
    /\ AutoFirst

LEMMA LineStarts == LineInit => LineInv
<1> SUFFICES ASSUME LineInit PROVE LineInv
  OBVIOUS
<1>1. PICK t \in Left : /\ tty = [d \in Devices |-> t]
                       /\ oddOnce = IF t.PARODD THEN Devices ELSE {}
  BY DEF LineInit
<1>2. t \in Lines
  BY LineAssumption DEF Lines
<1>3. Dcb(Default, TRUE) \in Dcbs
  BY DEF Dcbs
<1>4. LineTypes
  BY <1>1, <1>2, <1>3 DEF LineInit, LineTypes, Devices
<1>5. \A d \in Devices : tty[d].PARODD => d \in oddOnce
  BY <1>1
<1> QED
  BY <1>4, <1>5 DEF LineInit, LineInv, NothingLeftOver, AutoFirst

\* One of the flags of the settings of a device.
LEMMA FlagSet ==
  ASSUME NEW t \in Lines, NEW b \in BOOLEAN
  PROVE  /\ LET u == [t EXCEPT !.PARENB = b] IN
            /\ u \in Lines /\ u.PARENB = b
            /\ u.PARODD = t.PARODD /\ u.speed = t.speed
         /\ LET u == [t EXCEPT !.PARODD = b] IN
            /\ u \in Lines /\ u.PARODD = b
            /\ u.PARENB = t.PARENB /\ u.speed = t.speed
         /\ LET u == [t EXCEPT !.CSTOPB = b] IN
            /\ u \in Lines /\ u.CSTOPB = b /\ u.speed = t.speed
            /\ u.PARODD = t.PARODD /\ u.PARENB = t.PARENB
<1>1. LET u == [t EXCEPT !.PARENB = b] IN
      /\ u \in Lines /\ u.PARENB = b
      /\ u.PARODD = t.PARODD /\ u.speed = t.speed
  BY DEF Lines
<1>2. LET u == [t EXCEPT !.PARODD = b] IN
      /\ u \in Lines /\ u.PARODD = b
      /\ u.PARENB = t.PARENB /\ u.speed = t.speed
  BY DEF Lines
<1>3. LET u == [t EXCEPT !.CSTOPB = b] IN
      /\ u \in Lines /\ u.CSTOPB = b /\ u.speed = t.speed
      /\ u.PARODD = t.PARODD /\ u.PARENB = t.PARENB
  BY DEF Lines
<1> QED
  BY <1>1, <1>2, <1>3

\* What openPort() makes of the settings that it finds.
LEMMA ConfiguredAsAsked ==
  ASSUME NEW t \in Lines, NEW ask \in Asks, ask.bits \in 5 .. 8, Possible(ask)
  PROVE  LET u == Configured(t, ask) IN
         /\ u \in Lines
         /\ u.speed = ask.speed /\ u.CSIZE = CS[ask.bits]
         /\ u.CSTOPB = FALSE
         /\ u.PARODD = IF ask.parity = "odd" THEN TRUE ELSE t.PARODD
         /\ ask.parity = "even" => u.PARENB = TRUE
         /\ ask.parity # "even" => u.PARENB = FALSE
<1> DEFINE t1 == WithSpeed(t, ask)
           t2 == WithParity(t1, ask)
           t3 == WithStop(t2, ask)
           t4 == WithSize(t3, ask)
<1>1. t1 \in Lines /\ t1.speed = ask.speed /\ t1.PARODD = t.PARODD
  BY DEF WithSpeed, Lines, Possible
<1> HIDE DEF t1
<1>2. /\ t2 \in Lines /\ t2.speed = ask.speed
      /\ t2.PARODD = IF ask.parity = "odd" THEN TRUE ELSE t.PARODD
      /\ ask.parity = "even" => t2.PARENB = TRUE
      /\ ask.parity # "even" => t2.PARENB = FALSE
  <2>1. CASE ask.parity = "even"
    <3>1. t2 = [t1 EXCEPT !.PARENB = TRUE]
      BY <2>1 DEF WithParity
    <3> HIDE DEF t2
    <3> QED
      BY <1>1, <2>1, <3>1, FlagSet
  <2>2. CASE ask.parity = "odd"
    <3>1. t2 = [t1 EXCEPT !.PARENB = FALSE, !.PARODD = TRUE]
      BY <2>2 DEF WithParity
    <3> DEFINE tmid == [t1 EXCEPT !.PARENB = FALSE]
    <3>2. t2 = [tmid EXCEPT !.PARODD = TRUE]
      BY <1>1, <3>1 DEF Lines
    <3>3. tmid \in Lines /\ tmid.PARENB = FALSE /\ tmid.speed = t1.speed
      BY <1>1, FlagSet
    <3> HIDE DEF t2, tmid
    <3>4. /\ t2 \in Lines /\ t2.PARODD = TRUE
          /\ t2.PARENB = FALSE /\ t2.speed = ask.speed
      BY <1>1, <3>2, <3>3, FlagSet
    <3> QED
      BY <2>2, <3>4
  <2>3. CASE ask.parity \notin {"even", "odd"}
    <3>1. t2 = [t1 EXCEPT !.PARENB = FALSE]
      BY <2>3 DEF WithParity
    <3> HIDE DEF t2
    <3> QED
      BY <1>1, <2>3, <3>1, FlagSet
  <2> QED
    BY <2>1, <2>2, <2>3
<1> HIDE DEF t2
<1>3. /\ t3 \in Lines /\ t3.speed = ask.speed /\ t3.CSTOPB = FALSE
      /\ t3.PARODD = t2.PARODD /\ t3.PARENB = t2.PARENB
  BY <1>2, FlagSet DEF WithStop
<1> HIDE DEF t3
<1>4. CS[ask.bits] \in SUBSET {1, 2}
  BY DEF CS
<1>5. /\ t4 \in Lines /\ t4.speed = ask.speed /\ t4.CSTOPB = t3.CSTOPB
      /\ t4.CSIZE = CS[ask.bits]
      /\ t4.PARODD = t3.PARODD /\ t4.PARENB = t3.PARENB
  BY <1>3, <1>4 DEF WithSize, Lines
<1>6. Configured(t, ask) = t4
  BY DEF Configured, t1, t2, t3
<1> HIDE DEF t4
<1> QED
  BY <1>2, <1>3, <1>5, <1>6

\* openPort() for a device d, whoever has chosen it.
LEMMA OpensAfresh ==
  ASSUME LineTypes, \A d \in Devices : tty[d].PARODD => d \in oddOnce,
         NEW d, NEW ask \in Asks, openPort(d, ask)
  PROVE  /\ LineTypes'
         /\ \A e \in Devices : tty'[e].PARODD => e \in oddOnce'
         /\ NothingLeftOver'
         /\ at' \in {d, NoDevice}
<1>1. NoDevice \notin Devices /\ plugged \subseteq Devices
  BY LineAssumption DEF LineTypes, Devices
<1>2. CASE at' = NoDevice /\ UNCHANGED <<tty, dcb, oddOnce>>
  BY <1>2 DEF openPort, LineTypes, NothingLeftOver
<1>3. CASE windows /\ d \in plugged /\ dcb' = [dcb EXCEPT ![d] = Dcb(ask, FALSE)]
           /\ at' \in {d, NoDevice} /\ UNCHANGED <<tty, oddOnce>>
  <2>1. d \in Devices /\ Dcb(ask, FALSE) \in Dcbs
    BY <1>1, <1>3 DEF Dcbs
  <2>2. dcb'[d] = Dcb(ask, FALSE) /\ asked' = ask
    BY <1>3, <2>1 DEF LineTypes, openPort
  <2>3. LineTypes'
    BY <1>1, <1>3, <2>1 DEF openPort, LineTypes
  <2>4. NothingLeftOver'
    BY <1>3, <2>2 DEF openPort, NothingLeftOver, Dcb
  <2> QED
    BY <1>3, <2>3, <2>4
<1>4. CASE /\ ~windows /\ ask.bits \in 5 .. 8 /\ d \in plugged /\ Possible(ask)
           /\ tty' = [tty EXCEPT ![d] = Configured(@, ask)]
           /\ oddOnce' = oddOnce \cup (IF ask.parity = "odd" THEN {d} ELSE {})
           /\ at' = d
           /\ UNCHANGED dcb
  <2>1. d \in Devices /\ tty[d] \in Lines
    BY <1>1, <1>4 DEF LineTypes
  <2> DEFINE u == Configured(tty[d], ask)
  <2>2. /\ u \in Lines
        /\ u.speed = ask.speed /\ u.CSIZE = CS[ask.bits]
        /\ u.CSTOPB = FALSE
        /\ u.PARODD = IF ask.parity = "odd" THEN TRUE ELSE tty[d].PARODD
        /\ ask.parity = "even" => u.PARENB = TRUE
        /\ ask.parity # "even" => u.PARENB = FALSE
    BY <1>4, <2>1, ConfiguredAsAsked
  <2> HIDE DEF u
  <2>3. tty' = [tty EXCEPT ![d] = u]
    BY <1>4, <2>1 DEF u
  <2>4. tty'[d] = u /\ \A e \in Devices \ {d} : tty'[e] = tty[e]
    BY <2>1, <2>3 DEF LineTypes
  <2>5. LineTypes'
    BY <1>1, <1>4, <2>1, <2>2, <2>3 DEF LineTypes, openPort
  <2>6. \A e \in Devices : tty'[e].PARODD => e \in oddOnce'
    BY <1>4, <2>1, <2>2, <2>4
  <2>7. NothingLeftOver'
    <3>1. asked' = ask /\ windows' = windows
      BY DEF openPort
    <3>2. u.PARODD => d \in oddOnce'
      BY <1>4, <2>1, <2>2
    <3> QED
      BY <1>4, <2>2, <2>4, <3>1, <3>2 DEF NothingLeftOver
  <2> QED
    BY <1>4, <2>5, <2>6, <2>7
<1> QED
  BY <1>2, <1>3, <1>4 DEF openPort, OpenLinux, OpenWindows

LEMMA LineSteps == LineInv /\ [LineNext]_lineVars => LineInv'
<1> SUFFICES ASSUME LineInv, [LineNext]_lineVars
             PROVE  LineInv'
  OBVIOUS
<1>1. LineTypes /\ NothingLeftOver /\ AutoFirst
      /\ \A d \in Devices : tty[d].PARODD => d \in oddOnce
  BY DEF LineInv
<1>2. NoDevice \notin Devices /\ CharSize \in Nat \ {0}
  BY LineAssumption DEF Devices
<1>3. CASE UNCHANGED lineVars
  BY <1>3 DEF lineVars, LineInv, LineTypes, NothingLeftOver, AutoFirst
<1>4. ASSUME NEW d \in (IF windows THEN Coms ELSE Plain \cup Old),
             NEW t \in Left, Elsewhere(d, t)
      PROVE  LineInv'
  <2>1. t \in Lines
    BY LineAssumption DEF Lines
  <2>2. d \in Devices /\ d # at
    BY <1>1, <1>4 DEF Devices, LineTypes, Elsewhere
  <2>3. UNCHANGED <<windows, comPortName, autoFoundComPort, found, at, auto, asked>>
    BY <1>4 DEF Elsewhere
  <2>4. plugged' \subseteq (IF windows THEN Coms ELSE Plain \cup Old)
    BY <1>1, <1>4 DEF Elsewhere, LineTypes
  <2>5. CASE windows
    <3>1. PICK check \in BOOLEAN : dcb' = [dcb EXCEPT ![d] = Dcb(Default, check)]
      BY <1>4, <2>5 DEF Elsewhere
    <3>2. Dcb(Default, check) \in Dcbs
      BY DEF Dcbs
    <3>3. UNCHANGED <<tty, oddOnce>>
      BY <1>4, <2>5 DEF Elsewhere
    <3>4. LineTypes'
      BY <1>1, <2>3, <2>4, <3>1, <3>2, <3>3 DEF LineTypes
    <3>5. at # NoDevice => dcb'[at] = dcb[at]
      BY <1>1, <2>2, <3>1 DEF LineTypes
    <3>6. NothingLeftOver'
      BY <1>1, <2>3, <2>5, <3>5 DEF NothingLeftOver
    <3> QED
      BY <1>1, <2>3, <3>3, <3>4, <3>6 DEF LineInv, AutoFirst
  <2>6. CASE ~windows
    <3>1. /\ tty' = [tty EXCEPT ![d] = t] /\ dcb' = dcb
          /\ oddOnce' = IF t.PARODD THEN oddOnce \cup {d} ELSE oddOnce \ {d}
      BY <1>4, <2>6 DEF Elsewhere
    <3>2. tty'[d] = t /\ \A e \in Devices \ {d} : tty'[e] = tty[e]
      BY <1>1, <2>2, <3>1 DEF LineTypes
    <3>3. LineTypes'
      BY <1>1, <2>1, <2>3, <2>4, <3>1 DEF LineTypes
    <3>4. \A e \in Devices : tty'[e].PARODD => e \in oddOnce'
      BY <1>1, <2>2, <3>1, <3>2
    <3>5. NothingLeftOver'
      BY <1>1, <2>2, <2>3, <2>6, <3>1, <3>2 DEF NothingLeftOver, LineTypes
    <3> QED
      BY <1>1, <2>3, <2>6, <3>3, <3>4, <3>5 DEF LineInv, AutoFirst
  <2> QED
    BY <2>5, <2>6
<1>5. ASSUME NEW ask \in Asks, NEW num, OpenNumber(num, ask)
      PROVE  LineInv'
  <2>1. openPort(<<NameOf, num>>, ask)
    BY <1>5 DEF OpenNumber
  <2>2. LineTypes' /\ NothingLeftOver'
        /\ \A e \in Devices : tty'[e].PARODD => e \in oddOnce'
    BY <1>1, <2>1, OpensAfresh
  <2> QED
    BY <1>5, <2>2 DEF OpenNumber, openPort, LineInv, AutoFirst
<1>6. ASSUME NEW ask \in Asks, OpenFirst(ask)
      PROVE  LineInv'
  <2> DEFINE d == <<IF windows THEN "COM" ELSE comPortName', autoFoundComPort'>>
  <2>1. openPort(d, ask)
    BY <1>6 DEF OpenFirst
  <2>2. /\ LineTypes' /\ NothingLeftOver' /\ at' \in {d, NoDevice}
        /\ \A e \in Devices : tty'[e].PARODD => e \in oddOnce'
    <3> HIDE DEF d
    <3> QED
      BY <1>1, <2>1, OpensAfresh
  <2>3. windows' = windows
    BY <2>1 DEF openPort
  <2>4. CASE FoundLinux
    <3>1. ~windows
      BY <2>4 DEF FoundLinux
    <3>2. PICK e \in FirstOfList : comPortName' = e[1]
              /\ autoFoundComPort' = e[2] % CharSize /\ found' = e
      BY <2>4 DEF FoundLinux, Named
    <3>3. e \in STRING \X Nat
      BY <1>1, <3>1, LineAssumption
         DEF FirstOfList, Registered, Probed, LineTypes
    <3>4. found'[2] < CharSize => autoFoundComPort' = found'[2]
      BY <1>2, <3>2, <3>3, SmallMod
    <3>5. d = <<found'[1], autoFoundComPort'>> /\ found' = <<found'[1], found'[2]>>
      BY <3>1, <3>2, <3>3
    <3>6. AutoFirst'
      BY <2>2, <3>4, <3>5 DEF AutoFirst
    <3> QED
      BY <2>2, <2>3, <3>1, <3>6 DEF LineInv
  <2>5. CASE FoundWindows
    <3>1. windows
      BY <2>5 DEF FoundWindows
    <3>2. found' \in Coms /\ autoFoundComPort' = found'[2] % CharSize
      BY <1>1, <2>5, <3>1 DEF FoundWindows, LineInv, LineTypes
    <3>3. found' = <<"COM", found'[2]>> /\ found'[2] \in Nat
      BY <3>2, LineAssumption
    <3>4. found'[2] < CharSize => autoFoundComPort' = found'[2]
      BY <1>2, <3>2, <3>3, SmallMod
    <3>5. AutoFirst'
      BY <2>2, <3>1, <3>3, <3>4 DEF AutoFirst
    <3> QED
      BY <2>2, <2>3, <3>2, <3>5 DEF LineInv
  <2> QED
    BY <1>6, <2>4, <2>5 DEF OpenFirst
<1>7. CASE ClosePort
  BY <1>1, <1>7 DEF ClosePort, LineInv, LineTypes, NothingLeftOver, AutoFirst
<1> QED
  BY <1>3, <1>4, <1>5, <1>6, <1>7 DEF LineNext

(* An open() without a number opens the port that the search has found.     *)
THEOREM FirstIsOpened == LineSpec => []AutoFirst
<1>1. LineInv => AutoFirst
  BY DEF LineInv
<1> QED
  BY <1>1, LineStarts, LineSteps, PTL DEF LineSpec

(* Whatever was done with a device before, here or elsewhere, nothing of   *)
(* it but PARODD is left in the settings of the open line.                  *)
THEOREM LineIsNotInherited == LineSpec => []NothingLeftOver
<1>1. LineInv => NothingLeftOver
  BY DEF LineInv
<1> QED
  BY <1>1, LineStarts, LineSteps, PTL DEF LineSpec

-----------------------------------------------------------------------------
(* Places in the stream, one behind the other.                              *)
LEMMA PlacesAre ==
  ASSUME NEW a \in Nat, NEW b \in Nat, a <= b + 1
  PROVE  /\ Places(a, b) \in Seq(Nat) /\ Len(Places(a, b)) = b - a + 1
         /\ \A k \in 1 .. b - a + 1 : Places(a, b)[k] = a + k - 1
<1>1. b - a + 1 \in Nat /\ \A k \in 1 .. b - a + 1 : a + k - 1 \in Nat
  OBVIOUS
<1>2. Places(a, b) = [k \in 1 .. b - a + 1 |-> a + k - 1]
  BY DEF Places
<1> QED
  BY <1>1, <1>2

LEMMA NoPlaces == ASSUME NEW a \in Nat PROVE Places(a + 1, a) = <<>>
<1>1. a + 1 \in Nat /\ a - (a + 1) + 1 = 0
  OBVIOUS
<1>2. Places(a + 1, a) \in Seq(Nat) /\ Len(Places(a + 1, a)) = 0
  BY <1>1, PlacesAre
<1> QED
  BY <1>2, EmptySeq

LEMMA MorePlaces ==
  ASSUME NEW a \in Nat, NEW b \in Nat, a <= b + 1
  PROVE  Append(Places(a, b), b + 1) = Places(a, b + 1)
<1> DEFINE s == Places(a, b)
           t == Places(a, b + 1)
           n == b - a + 1
<1>1. /\ s \in Seq(Nat) /\ Len(s) = n /\ \A k \in 1 .. n : s[k] = a + k - 1
  BY PlacesAre
<1>2. /\ t \in Seq(Nat) /\ Len(t) = n + 1 /\ \A k \in 1 .. n + 1 : t[k] = a + k - 1
  <2>1. b + 1 \in Nat /\ a <= (b + 1) + 1 /\ (b + 1) - a + 1 = n + 1
    OBVIOUS
  <2> QED
    BY <2>1, PlacesAre
<1>3. n \in Nat /\ a + (n + 1) - 1 = b + 1
  OBVIOUS
<1> HIDE DEF s, t, n
<1>4. /\ Append(s, b + 1) \in Seq(Nat) /\ Len(Append(s, b + 1)) = n + 1
      /\ \A k \in 1 .. n : Append(s, b + 1)[k] = s[k]
      /\ Append(s, b + 1)[n + 1] = b + 1
  BY <1>1, AppendProperties
<1>5. \A k \in 1 .. n + 1 : Append(s, b + 1)[k] = t[k]
  <2> SUFFICES ASSUME NEW k \in 1 .. n + 1 PROVE Append(s, b + 1)[k] = t[k]
    OBVIOUS
  <2>1. CASE k = n + 1
    BY <1>2, <1>3, <1>4, <2>1
  <2>2. CASE k # n + 1
    <3>1. k \in 1 .. n
      BY <1>3, <2>2
    <3>2. s[k] = a + k - 1 /\ t[k] = a + k - 1
      BY <1>1, <1>2, <3>1
    <3> QED
      BY <1>4, <3>1, <3>2
  <2> QED
    BY <2>1, <2>2
<1> QED
  BY <1>2, <1>4, <1>5, SeqEqual DEF s, t

(* The first place of a class from some place on, for good: bytes that      *)
(* arrive later do not change it.                                           *)
NonSpace == Classes \ {"space"}
NonLetter == Classes \ {"letter"}
IsFirst(k, i, classes) ==
    /\ k \in i .. Len(stream) /\ stream[k] \in classes
    /\ \A j \in i .. k - 1 : stream[j] \notin classes

LEMMA FirstIs ==
  ASSUME NEW i \in Nat, NEW k \in Nat, NEW classes, stream \in Seq(Classes),
         IsFirst(k, i, classes)
  PROVE  FirstFrom(i, classes) = k
<1> DEFINE P(x) == stream[x] \in classes /\ \A j \in i .. x - 1 : stream[j] \notin classes
<1>1. k \in i .. Len(stream) /\ P(k)
  BY DEF IsFirst
<1>2. ASSUME NEW x \in i .. Len(stream), P(x) PROVE x = k
  <2>1. Len(stream) \in Nat
    OBVIOUS
  <2>2. x \in Int /\ i <= x
    BY <2>1
  <2>3. ~(x < k)
    <3> SUFFICES ASSUME x < k PROVE FALSE
      OBVIOUS
    <3>1. x \in i .. k - 1
      BY <2>2
    <3> QED
      BY <1>1, <1>2, <3>1
  <2>4. ~(k < x)
    <3> SUFFICES ASSUME k < x PROVE FALSE
      OBVIOUS
    <3>1. k \in i .. x - 1
      BY <1>1, <2>2
    <3> QED
      BY <1>1, <1>2, <3>1
  <2> QED
    BY <2>2, <2>3, <2>4
<1>3. FirstFrom(i, classes) = CHOOSE x \in i .. Len(stream) : P(x)
  BY DEF FirstFrom
<1> HIDE DEF P
<1> QED
  BY <1>1, <1>2, <1>3

(* The inductive invariant: what a call that runs has taken is the          *)
(* beginning of one unit, and what the last call returned is one.           *)
LineSoFar == /\ strLine = Places(from + 1, pos)
             /\ \A j \in from + 1 .. pos : stream[j] # "newline"
SpacesTo(k) == \A j \in from + 1 .. k : stream[j] = "space"
InWord(s) ==
    /\ s \in from + 1 .. pos /\ SpacesTo(s - 1)
    /\ \A j \in s .. pos : stream[j] = "letter"
    /\ strLine = Places(s, pos)
WordSoFar == IF isStart THEN \E s \in Nat : InWord(s)
                        ELSE SpacesTo(pos) /\ strLine = <<>>

ReaderTypes ==
    /\ stream \in Seq(Classes) /\ pos \in 0 .. Len(stream) /\ from \in 0 .. pos
    /\ bytesAvaiable \in Nat
Running ==
    /\ call \in {"read", "readByte"} => pos = from
    /\ call = "readByte" => bytesAvaiable <= Len(stream) - pos
    /\ call = "getLine" => LineSoFar
    /\ call = "getWord" => WordSoFar

IsLine(f, u, g) == IsFirst(u, f + 1, {"newline"}) /\ g = Places(f + 1, u - 1)
IsWord(f, u, g) == \E s \in Nat :
    IsFirst(s, f + 1, NonSpace) /\ IsFirst(u, s, NonLetter) /\ g = Places(s, u - 1)
IsByte(f, u, g) == g = <<f + 1>> /\ (onWindows => u = f + 1)
IsUnit(kind, f, u, g) ==
    /\ f \in Nat /\ u \in Nat
    /\ kind = "getLine" => IsLine(f, u, g)
    /\ kind = "getWord" => IsWord(f, u, g)
    /\ kind = "readByte" => IsByte(f, u, g)
    /\ kind \notin {"getLine", "getWord", "readByte"} => g = Places(f + 1, u)
Answered == ~answer.cut => IsUnit(answer.kind, answer.from, answer.upto, answer.got)
ReaderInv == ReaderTypes /\ Running /\ Answered

LEMMA ReaderStarts == ReaderInit => ReaderInv
<1> SUFFICES ASSUME ReaderInit PROVE ReaderInv
  OBVIOUS
<1>1. ReaderTypes
  BY EmptySeq DEF ReaderInit, ReaderTypes
<1>2. Running
  BY DEF ReaderInit, Running
<1>3. Places(0 + 1, 0) = <<>>
  BY NoPlaces
<1>4. IsUnit("none", 0, 0, <<>>)
  BY <1>3 DEF IsUnit
<1>5. Answered
  BY <1>4 DEF ReaderInit, Answered
<1> QED
  BY <1>1, <1>2, <1>5 DEF ReaderInv

(* What is at a place stays there.                                          *)
LEMMA Arrives ==
  ASSUME ReaderTypes, ByteArrives
  PROVE  /\ stream' \in Seq(Classes) /\ Len(stream) \in Nat
         /\ Len(stream') = Len(stream) + 1
         /\ \A j \in 1 .. Len(stream) : stream'[j] = stream[j]
<1>1. PICK c \in Classes : stream' = Append(stream, c)
  BY DEF ByteArrives
<1>2. stream \in Seq(Classes)
  BY DEF ReaderTypes
<1> QED
  BY <1>1, <1>2, AppendProperties

LEMMA FirstStays ==
  ASSUME ReaderTypes, ByteArrives, NEW k \in Nat, NEW i \in Nat \ {0}, NEW classes,
         IsFirst(k, i, classes)
  PROVE  IsFirst(k, i, classes)'
<1>1. /\ Len(stream) \in Nat /\ Len(stream') = Len(stream) + 1
      /\ \A j \in 1 .. Len(stream) : stream'[j] = stream[j]
  BY Arrives
<1>2. /\ k \in i .. Len(stream) /\ stream[k] \in classes
      /\ \A j \in i .. k - 1 : stream[j] \notin classes
  BY DEF IsFirst
<1>3. k \in i .. Len(stream')
  BY <1>1, <1>2
<1>4. \A j \in i .. k : j \in 1 .. Len(stream)
  BY <1>1, <1>2
<1>5. stream'[k] = stream[k] /\ \A j \in i .. k - 1 : stream'[j] = stream[j]
  BY <1>1, <1>2, <1>4
<1> QED
  BY <1>2, <1>3, <1>5 DEF IsFirst

LEMMA ArrivalKeeps == ReaderInv /\ ByteArrives => ReaderInv'
<1> SUFFICES ASSUME ReaderInv, ByteArrives PROVE ReaderInv'
  OBVIOUS
<1>0. ReaderTypes /\ Running /\ Answered
  BY DEF ReaderInv
<1>1. /\ stream' \in Seq(Classes) /\ Len(stream) \in Nat
      /\ Len(stream') = Len(stream) + 1
      /\ \A j \in 1 .. Len(stream) : stream'[j] = stream[j]
  BY <1>0, Arrives
<1>2. /\ UNCHANGED <<onWindows, pos, call, from, bytesAvaiable,
                      strLine, isStart, answer>>
  BY DEF ByteArrives, InQueue
<1>3. pos \in 0 .. Len(stream) /\ from \in 0 .. pos /\ bytesAvaiable \in Nat
  BY <1>0 DEF ReaderTypes
<1>4. ReaderTypes'
  <2>1. pos' \in 0 .. Len(stream') /\ from' \in 0 .. pos' /\ bytesAvaiable' \in Nat
    BY <1>1, <1>2, <1>3
  <2> QED
    BY <1>1, <2>1 DEF ReaderTypes
<1>5. \A j \in from + 1 .. pos : stream'[j] = stream[j]
  <2>1. \A j \in from + 1 .. pos : j \in 1 .. Len(stream)
    BY <1>1, <1>3
  <2> QED
    BY <1>1, <2>1
<1>6. LineSoFar => LineSoFar'
  BY <1>2, <1>5 DEF LineSoFar
<1>7. \A k \in from .. pos : SpacesTo(k) => SpacesTo(k)'
  <2> SUFFICES ASSUME NEW k \in from .. pos, SpacesTo(k), NEW j \in from + 1 .. k
               PROVE  stream'[j] = "space"
    BY <1>2 DEF SpacesTo
  <2>1. j \in from + 1 .. pos
    BY <1>3
  <2> QED
    BY <1>5, <2>1 DEF SpacesTo
<1>8. ASSUME NEW s \in Nat, InWord(s) PROVE InWord(s)'
  <2>1. s \in from + 1 .. pos /\ s - 1 \in from .. pos
    BY <1>3, <1>8 DEF InWord
  <2>2. \A j \in s .. pos : j \in from + 1 .. pos
    BY <1>3, <2>1
  <2> QED
    BY <1>2, <1>5, <1>7, <1>8, <2>1, <2>2 DEF InWord
<1>9. WordSoFar => WordSoFar'
  <2>1. pos \in from .. pos
    BY <1>3
  <2> QED
    BY <1>2, <1>7, <1>8, <2>1 DEF WordSoFar
<1>10. Running'
  <2>1. call = "readByte" => bytesAvaiable <= Len(stream') - pos
    BY <1>0, <1>1, <1>3 DEF Running
  <2> QED
    BY <1>0, <1>2, <1>6, <1>9, <2>1 DEF Running
<1>11. Answered'
  <2> DEFINE f == answer.from
             u == answer.upto
             g == answer.got
  <2> SUFFICES ASSUME ~answer.cut PROVE IsUnit(answer.kind, f, u, g)'
    BY <1>2 DEF Answered
  <2>1. IsUnit(answer.kind, f, u, g)
    BY <1>0 DEF Answered
  <2>2. f \in Nat /\ u \in Nat /\ f + 1 \in Nat \ {0}
    BY <2>1 DEF IsUnit
  <2>3. UNCHANGED <<f, u, g, answer>>
    BY <1>2
  <2> HIDE DEF f, u, g
  <2>4. IsLine(f, u, g) => IsLine(f, u, g)'
    <3>1. IsFirst(u, f + 1, {"newline"}) => IsFirst(u, f + 1, {"newline"})'
      BY <1>0, <2>2, <2>3, FirstStays
    <3> QED
      BY <2>3, <3>1 DEF IsLine
  <2>5. IsWord(f, u, g) => IsWord(f, u, g)'
    <3> SUFFICES ASSUME NEW s \in Nat, IsFirst(s, f + 1, NonSpace),
                        IsFirst(u, s, NonLetter), g = Places(s, u - 1)
                 PROVE  IsWord(f, u, g)'
      BY DEF IsWord
    <3>1. s \in Nat \ {0}
      BY <2>2 DEF IsFirst
    <3>2. IsFirst(s, f + 1, NonSpace)'
      BY <1>0, <2>2, <2>3, FirstStays
    <3>3. IsFirst(u, s, NonLetter)'
      BY <1>0, <2>2, <2>3, <3>1, FirstStays
    <3> QED
      BY <2>3, <3>2, <3>3 DEF IsWord
  <2>6. IsByte(f, u, g) => IsByte(f, u, g)'
    BY <1>2, <2>3 DEF IsByte
  <2> QED
    BY <2>1, <2>3, <2>4, <2>5, <2>6 DEF IsUnit
<1> QED
  BY <1>4, <1>10, <1>11 DEF ReaderInv

(* A call that returns one unit.                                            *)
LEMMA ReturnKeeps ==
  ASSUME ReaderInv, NEW upto \in pos .. Len(stream), NEW got, NEW cut,
         Returns(upto, got, cut), ~cut => IsUnit(call, from, upto, got)
  PROVE  ReaderInv'
<1>1. /\ pos' = upto /\ call' = "none" /\ UNCHANGED <<stream, from, bytesAvaiable,
                                                    onWindows>>
      /\ answer' = [kind |-> call, from |-> from, upto |-> upto, got |-> got, cut |-> cut]
  BY DEF Returns
<1>2. ReaderTypes
  BY DEF ReaderInv
<1>3. Len(stream) \in Nat /\ pos \in 0 .. Len(stream) /\ from \in 0 .. pos
  BY <1>2 DEF ReaderTypes
<1>4. /\ upto \in 0 .. Len(stream) /\ from \in 0 .. upto
  BY <1>3
<1>5. ReaderTypes'
  BY <1>1, <1>2, <1>4 DEF ReaderTypes
<1>6. Running'
  BY <1>1 DEF Running
<1>7. Answered'
  <2> SUFFICES ASSUME ~cut PROVE IsUnit(call, from, upto, got)
    BY <1>1 DEF Answered, IsUnit, IsLine, IsWord, IsByte, IsFirst
  <2> QED
    OBVIOUS
<1> QED
  BY <1>5, <1>6, <1>7 DEF ReaderInv

LEMMA BeginKeeps == ReaderInv /\ (\E kind \in Calls : Begin(kind)) => ReaderInv'
<1> SUFFICES ASSUME ReaderInv, NEW kind \in Calls, Begin(kind) PROVE ReaderInv'
  OBVIOUS
<1>0. ReaderTypes /\ Answered
  BY DEF ReaderInv
<1>1. /\ call' = kind /\ from' = pos /\ bytesAvaiable' = Len(stream) - pos
      /\ strLine' = <<>> /\ isStart' = FALSE
      /\ UNCHANGED <<onWindows, stream, pos, answer>>
  BY DEF Begin, InQueue
<1>2. Len(stream) \in Nat /\ pos \in 0 .. Len(stream)
  BY <1>0 DEF ReaderTypes
<1>3. bytesAvaiable' \in Nat /\ from' \in 0 .. pos'
  BY <1>1, <1>2
<1>4. ReaderTypes'
  BY <1>0, <1>1, <1>3 DEF ReaderTypes
<1>5. \A j \in pos + 1 .. pos : FALSE
  BY <1>2
<1>6. LineSoFar' /\ WordSoFar'
  <2>1. Places(pos + 1, pos) = <<>>
    BY <1>2, NoPlaces
  <2>2. LineSoFar'
    BY <1>1, <1>5, <2>1 DEF LineSoFar
  <2>3. WordSoFar'
    BY <1>1, <1>5 DEF WordSoFar, SpacesTo
  <2> QED
    BY <2>2, <2>3
<1>7. bytesAvaiable' <= Len(stream') - pos'
  BY <1>1, <1>2, <1>3
<1>8. Running'
  BY <1>1, <1>6, <1>7 DEF Running
<1>9. Answered'
  BY <1>0, <1>1 DEF Answered, IsUnit, IsLine, IsWord, IsByte, IsFirst
<1> QED
  BY <1>4, <1>8, <1>9 DEF ReaderInv

LEMMA ByteKeeps ==
  ReaderInv /\ (ReadSome \/ Poll \/ GiveUp \/ TakeByte \/ TakeByteWindows) => ReaderInv'
<1> SUFFICES ASSUME ReaderInv,
                    ReadSome \/ Poll \/ GiveUp \/ TakeByte \/ TakeByteWindows
             PROVE  ReaderInv'
  OBVIOUS
<1>0. ReaderTypes /\ Running /\ Answered
  BY DEF ReaderInv
<1>1. Len(stream) \in Nat /\ pos \in 0 .. Len(stream) /\ from \in 0 .. pos
      /\ bytesAvaiable \in Nat
  BY <1>0 DEF ReaderTypes
<1>2. CASE ReadSome
  <2>1. PICK n \in 0 .. Len(stream) - pos :
            Returns(pos + n, Places(pos + 1, pos + n), FALSE)
    BY <1>2 DEF ReadSome, InQueue
  <2>2. call = "read" /\ pos = from
    BY <1>0, <1>2 DEF ReadSome, Running
  <2>3. pos + n \in pos .. Len(stream) /\ pos + n \in Nat
    BY <1>1, <2>1
  <2>4. IsUnit(call, from, pos + n, Places(pos + 1, pos + n))
    BY <1>1, <2>2, <2>3 DEF IsUnit
  <2> QED
    BY <2>1, <2>3, <2>4, ReturnKeeps
<1>3. CASE Poll
  <2>1. /\ call = "readByte" /\ bytesAvaiable' = Len(stream) - pos
        /\ UNCHANGED <<onWindows, stream, pos, call, from, answer>>
    BY <1>3 DEF Poll, InQueue
  <2>2. bytesAvaiable' \in Nat
    BY <1>1, <2>1
  <2>3. ReaderTypes'
    BY <1>0, <2>1, <2>2 DEF ReaderTypes
  <2>4. bytesAvaiable' <= Len(stream') - pos'
    BY <1>1, <2>1
  <2>5. Running'
    BY <1>0, <2>1, <2>4 DEF Running
  <2>6. Answered'
    BY <1>0, <2>1 DEF Answered, IsUnit, IsLine, IsWord, IsByte, IsFirst
  <2> QED
    BY <2>3, <2>5, <2>6 DEF ReaderInv
<1>4. CASE GiveUp
  <2>1. Returns(pos, <<>>, TRUE)
    BY <1>4 DEF GiveUp
  <2>2. pos \in pos .. Len(stream)
    BY <1>1
  <2> QED
    BY <2>1, <2>2, ReturnKeeps
<1>5. CASE TakeByte
  <2>1. call = "readByte" /\ ~onWindows /\ pos = from
        /\ bytesAvaiable <= Len(stream) - pos
    BY <1>0, <1>5 DEF TakeByte, Running
  <2>2. PICK n \in 0 .. bytesAvaiable :
            \/ Returns(pos + n, <<pos + 1>>, FALSE)
            \/ Returns(pos + n, <<>>, TRUE)
    BY <1>5 DEF TakeByte
  <2>3. pos + n \in pos .. Len(stream) /\ pos + n \in Nat
    BY <1>1, <2>1
  <2>4. IsByte(from, pos + n, <<pos + 1>>)
    BY <2>1 DEF IsByte
  <2>5. IsUnit(call, from, pos + n, <<pos + 1>>)
    BY <1>1, <2>1, <2>3, <2>4 DEF IsUnit
  <2>6. CASE Returns(pos + n, <<pos + 1>>, FALSE)
    BY <2>3, <2>5, <2>6, ReturnKeeps
  <2>7. CASE Returns(pos + n, <<>>, TRUE)
    BY <2>3, <2>7, ReturnKeeps
  <2> QED
    BY <2>2, <2>6, <2>7
<1>6. CASE TakeByteWindows
  <2>1. /\ call = "readByte" /\ Len(stream) - pos > 0
        /\ \/ Returns(pos + 1, <<pos + 1>>, FALSE)
           \/ Returns(pos, <<>>, TRUE)
    BY <1>6 DEF TakeByteWindows, InQueue
  <2>2. pos = from
    BY <1>0, <2>1 DEF Running
  <2>3. pos + 1 \in pos .. Len(stream) /\ pos + 1 \in Nat
        /\ pos \in pos .. Len(stream)
    BY <1>1, <2>1
  <2>4. IsByte(from, pos + 1, <<pos + 1>>)
    BY <2>2 DEF IsByte
  <2>5. IsUnit(call, from, pos + 1, <<pos + 1>>)
    BY <1>1, <2>1, <2>3, <2>4 DEF IsUnit
  <2>6. CASE Returns(pos + 1, <<pos + 1>>, FALSE)
    BY <2>3, <2>5, <2>6, ReturnKeeps
  <2>7. CASE Returns(pos, <<>>, TRUE)
    BY <2>3, <2>7, ReturnKeeps
  <2> QED
    BY <2>1, <2>6, <2>7
<1> QED
  BY <1>2, <1>3, <1>4, <1>5, <1>6

(* A byte that getLine() takes ends the line or belongs to it.              *)
LEMMA LineKeeps == ReaderInv /\ GetLineStep => ReaderInv'
<1> SUFFICES ASSUME ReaderInv, GetLineStep PROVE ReaderInv'
  OBVIOUS
<1>0. ReaderTypes /\ Running /\ Answered
  BY DEF ReaderInv
<1>1. Len(stream) \in Nat /\ pos \in 0 .. Len(stream) /\ from \in 0 .. pos
  BY <1>0 DEF ReaderTypes
<1>2. call = "getLine" /\ Len(stream) - pos > 0
  BY DEF GetLineStep, InQueue
<1>3. strLine = Places(from + 1, pos) /\ \A j \in from + 1 .. pos : stream[j] # "newline"
  BY <1>0, <1>2 DEF Running, LineSoFar
<1>4. pos + 1 \in pos .. Len(stream) /\ pos + 1 \in from + 1 .. Len(stream)
      /\ pos + 1 \in Nat /\ (pos + 1) - 1 = pos
  BY <1>1, <1>2
<1>5. CASE LineEnds
  <2>1. Returns(pos + 1, strLine, FALSE)
    BY <1>5 DEF GetLineStep
  <2>2. IsFirst(pos + 1, from + 1, {"newline"})
    BY <1>3, <1>4, <1>5 DEF IsFirst, LineEnds, NextByte
  <2>3. IsLine(from, pos + 1, strLine)
    BY <1>3, <1>4, <2>2 DEF IsLine
  <2>4. IsUnit(call, from, pos + 1, strLine)
    BY <1>1, <1>2, <1>4, <2>3 DEF IsUnit
  <2> QED
    BY <1>4, <2>1, <2>4, ReturnKeeps
<1>6. CASE ~LineEnds
  <2>1. /\ pos' = pos + 1 /\ strLine' = Append(strLine, pos + 1)
        /\ UNCHANGED <<onWindows, stream, call, from, answer, bytesAvaiable>>
    BY <1>6 DEF GetLineStep
  <2>2. strLine' = Places(from + 1, pos + 1)
    <3>1. from + 1 \in Nat /\ pos \in Nat /\ from + 1 <= pos + 1
      BY <1>1
    <3> QED
      BY <1>3, <2>1, <3>1, MorePlaces
  <2>3. \A j \in from + 1 .. pos + 1 : stream[j] # "newline"
    <3>1. \A j \in from + 1 .. pos + 1 : j \in from + 1 .. pos \/ j = pos + 1
      BY <1>1
    <3>2. stream[pos + 1] # "newline"
      BY <1>6 DEF LineEnds, NextByte
    <3> QED
      BY <1>3, <3>1, <3>2
  <2>4. LineSoFar'
    BY <2>1, <2>2, <2>3 DEF LineSoFar
  <2>5. Running'
    BY <1>2, <2>1, <2>4 DEF Running
  <2>6. ReaderTypes'
    <3>1. pos + 1 \in 0 .. Len(stream) /\ from \in 0 .. pos + 1
      BY <1>1, <1>4
    <3> QED
      BY <1>0, <2>1, <3>1 DEF ReaderTypes
  <2>7. Answered'
    BY <1>0, <2>1 DEF Answered, IsUnit, IsLine, IsWord, IsByte, IsFirst
  <2> QED
    BY <2>5, <2>6, <2>7 DEF ReaderInv
<1> QED
  BY <1>5, <1>6

(* The place at which the word begins, once a byte that is no space is here.*)
LEMMA WordBegins ==
  ASSUME ReaderInv, call = "getWord", Len(stream) - pos > 0, Started
  PROVE  \E s \in Nat :
            /\ s \in from + 1 .. pos + 1 /\ SpacesTo(s - 1)
            /\ \A j \in s .. pos : stream[j] = "letter"
            /\ strLine = Places(s, pos)
            /\ s = pos + 1 => stream[pos + 1] # "space"
<1>1. ReaderTypes /\ WordSoFar
  BY DEF ReaderInv, Running
<1>2. Len(stream) \in Nat /\ pos \in 0 .. Len(stream) /\ from \in 0 .. pos
  BY <1>1 DEF ReaderTypes
<1>3. CASE isStart
  <2>1. PICK s \in Nat : InWord(s)
    BY <1>1, <1>3 DEF WordSoFar
  <2>2. s \in from + 1 .. pos /\ s \in from + 1 .. pos + 1 /\ s # pos + 1
    BY <1>2, <2>1 DEF InWord
  <2> QED
    BY <2>1, <2>2 DEF InWord
<1>4. CASE ~isStart
  <2>1. SpacesTo(pos) /\ strLine = <<>> /\ stream[pos + 1] # "space"
    BY <1>1, <1>4 DEF WordSoFar, Started, NextByte
  <2>2. /\ pos + 1 \in Nat /\ pos + 1 \in from + 1 .. pos + 1 /\ (pos + 1) - 1 = pos
        /\ \A j \in pos + 1 .. pos : FALSE
    BY <1>2
  <2>3. strLine = Places(pos + 1, pos)
    BY <1>2, <2>1, NoPlaces
  <2> QED
    BY <2>1, <2>2, <2>3
<1> QED
  BY <1>3, <1>4

LEMMA WordKeeps == ReaderInv /\ GetWordStep => ReaderInv'
<1> SUFFICES ASSUME ReaderInv, GetWordStep PROVE ReaderInv'
  OBVIOUS
<1>0. ReaderTypes /\ Running /\ Answered
  BY DEF ReaderInv
<1>1. Len(stream) \in Nat /\ pos \in 0 .. Len(stream) /\ from \in 0 .. pos
  BY <1>0 DEF ReaderTypes
<1>2. call = "getWord" /\ Len(stream) - pos > 0
  BY DEF GetWordStep, InQueue
<1>3. pos + 1 \in pos .. Len(stream) /\ pos + 1 \in 1 .. Len(stream)
      /\ pos + 1 \in Nat /\ (pos + 1) - 1 = pos
  BY <1>1, <1>2
<1>4. stream[pos + 1] \in Classes
  BY <1>0, <1>3, ElementOfSeq DEF ReaderTypes
<1>5. CASE WordEnds
  <2>1. Returns(pos + 1, strLine, FALSE)
    BY <1>5 DEF GetWordStep
  <2>2. PICK s \in Nat :
            /\ s \in from + 1 .. pos + 1 /\ SpacesTo(s - 1)
            /\ \A j \in s .. pos : stream[j] = "letter"
            /\ strLine = Places(s, pos)
            /\ s = pos + 1 => stream[pos + 1] # "space"
    BY <1>2, <1>5, WordBegins DEF WordEnds
  <2>3. stream[pos + 1] \in NonLetter
    BY <1>4, <1>5 DEF WordEnds, NextByte, NonLetter
  <2>4. IsFirst(s, from + 1, NonSpace)
    <3>1. s \in from + 1 .. Len(stream)
      BY <1>1, <1>2, <2>2
    <3>2. stream[s] \in NonSpace
      <4>1. s \in s .. pos \/ s = pos + 1
        BY <1>1, <2>2
      <4> QED
        BY <1>4, <2>2, <4>1 DEF NonSpace, Classes
    <3>3. \A j \in from + 1 .. s - 1 : stream[j] \notin NonSpace
      BY <2>2 DEF SpacesTo, NonSpace
    <3> QED
      BY <3>1, <3>2, <3>3 DEF IsFirst
  <2>5. IsFirst(pos + 1, s, NonLetter)
    <3>1. pos + 1 \in s .. Len(stream)
      BY <1>1, <1>2, <2>2
    <3>2. \A j \in s .. (pos + 1) - 1 : stream[j] \notin NonLetter
      BY <1>3, <2>2 DEF NonLetter
    <3> QED
      BY <2>3, <3>1, <3>2 DEF IsFirst
  <2>6. IsWord(from, pos + 1, strLine)
    BY <1>3, <2>2, <2>4, <2>5 DEF IsWord
  <2>7. IsUnit(call, from, pos + 1, strLine)
    BY <1>1, <1>2, <1>3, <2>6 DEF IsUnit
  <2> QED
    BY <1>3, <2>1, <2>7, ReturnKeeps
<1>6. CASE ~WordEnds
  <2>1. /\ pos' = pos + 1 /\ isStart' = Started
        /\ strLine' = IF Started THEN Append(strLine, pos + 1) ELSE strLine
        /\ UNCHANGED <<onWindows, stream, call, from, answer, bytesAvaiable>>
    BY <1>6 DEF GetWordStep
  <2>2. WordSoFar'
    <3>1. CASE Started
      <4>1. stream[pos + 1] = "letter"
        BY <1>4, <1>6, <3>1 DEF WordEnds, NextByte, Classes
      <4>2. PICK s \in Nat :
                /\ s \in from + 1 .. pos + 1 /\ SpacesTo(s - 1)
                /\ \A j \in s .. pos : stream[j] = "letter"
                /\ strLine = Places(s, pos)
        BY <1>2, <3>1, WordBegins
      <4>3. strLine' = Places(s, pos + 1)
        <5>1. pos \in Nat /\ s <= pos + 1
          BY <1>1, <4>2
        <5> QED
          BY <2>1, <3>1, <4>2, <5>1, MorePlaces
      <4>4. \A j \in s .. pos + 1 : stream[j] = "letter"
        <5>1. \A j \in s .. pos + 1 : j \in s .. pos \/ j = pos + 1
          BY <1>1
        <5> QED
          BY <4>1, <4>2, <5>1
      <4>5. s' = s /\ SpacesTo(s - 1)'
        BY <2>1, <4>2 DEF SpacesTo
      <4>6. InWord(s)'
        BY <2>1, <4>2, <4>3, <4>4, <4>5 DEF InWord
      <4> QED
        BY <2>1, <3>1, <4>6 DEF WordSoFar
    <3>2. CASE ~Started
      <4>1. ~isStart /\ stream[pos + 1] = "space"
        BY <3>2 DEF Started, NextByte
      <4>2. SpacesTo(pos) /\ strLine = <<>>
        BY <1>0, <1>2, <4>1 DEF Running, WordSoFar
      <4>3. \A j \in from + 1 .. pos + 1 : j \in from + 1 .. pos \/ j = pos + 1
        BY <1>1
      <4>4. SpacesTo(pos)'
        BY <2>1, <4>1, <4>2, <4>3 DEF SpacesTo
      <4> QED
        BY <2>1, <3>2, <4>2, <4>4 DEF WordSoFar
    <3> QED
      BY <3>1, <3>2
  <2>3. Running'
    BY <1>2, <2>1, <2>2 DEF Running
  <2>4. ReaderTypes'
    <3>1. pos + 1 \in 0 .. Len(stream) /\ from \in 0 .. pos + 1
      BY <1>1, <1>3
    <3> QED
      BY <1>0, <2>1, <3>1 DEF ReaderTypes
  <2>5. Answered'
    BY <1>0, <2>1 DEF Answered, IsUnit, IsLine, IsWord, IsByte, IsFirst
  <2> QED
    BY <2>3, <2>4, <2>5 DEF ReaderInv
<1> QED
  BY <1>5, <1>6

LEMMA ReaderSteps == ReaderInv /\ [ReaderNext]_readerVars => ReaderInv'
<1> SUFFICES ASSUME ReaderInv, [ReaderNext]_readerVars PROVE ReaderInv'
  OBVIOUS
<1>1. CASE UNCHANGED readerVars
  <2>1. /\ UNCHANGED <<onWindows, stream, pos, call, from>>
        /\ UNCHANGED <<bytesAvaiable, strLine, isStart, answer>>
    BY <1>1 DEF readerVars
  <2>2. ReaderTypes' /\ Running'
    BY <2>1 DEF ReaderInv, ReaderTypes, Running, LineSoFar, WordSoFar, InWord, SpacesTo
  <2>3. Answered'
    BY <2>1 DEF ReaderInv, Answered, IsUnit, IsLine, IsWord, IsByte, IsFirst
  <2> QED
    BY <2>2, <2>3 DEF ReaderInv
<1>2. CASE ReadFails
  <2>1. Returns(pos, strLine, TRUE)
    BY <1>2 DEF ReadFails
  <2>2. pos \in pos .. Len(stream)
    BY DEF ReaderInv, ReaderTypes
  <2> QED
    BY <2>1, <2>2, ReturnKeeps
<1> QED
  BY <1>1, <1>2, ArrivalKeeps, BeginKeeps, ByteKeeps, LineKeeps, WordKeeps
     DEF ReaderNext, ReaderGoesOn

(* Whatever the moments at which bytes arrive, a call that returns without  *)
(* an error returns exactly the next byte, line or word of the stream, and   *)
(* takes no byte behind it, readByte() on Linux excepted.                   *)
THEOREM UnitsAreWhole == ReaderSpec => []UnitsWhole
<1>1. ReaderInv => UnitsWhole
  <2> SUFFICES ASSUME ReaderInv, ~answer.cut
               PROVE  CASE answer.kind = "getLine"  -> LineUnit
                        [] answer.kind = "getWord"  -> WordUnit
                        [] answer.kind = "readByte" ->
                              /\ answer.got = <<answer.from + 1>>
                              /\ onWindows => answer.upto = answer.from + 1
                        [] OTHER -> answer.got = Places(answer.from + 1, answer.upto)
    BY DEF UnitsWhole
  <2>1. IsUnit(answer.kind, answer.from, answer.upto, answer.got)
        /\ stream \in Seq(Classes)
    BY DEF ReaderInv, ReaderTypes, Answered
  <2>2. CASE answer.kind = "getLine"
    <3>1. IsLine(answer.from, answer.upto, answer.got)
          /\ answer.from + 1 \in Nat /\ answer.upto \in Nat
      BY <2>1, <2>2 DEF IsUnit
    <3>2. FirstFrom(answer.from + 1, {"newline"}) = answer.upto
      BY <2>1, <3>1, FirstIs DEF IsLine
    <3>3. LineUnit
      BY <3>1, <3>2 DEF LineUnit, IsLine
    <3> QED
      BY <2>2, <3>3
  <2>3. CASE answer.kind = "getWord"
    <3>1. IsWord(answer.from, answer.upto, answer.got)
          /\ answer.from + 1 \in Nat /\ answer.upto \in Nat
      BY <2>1, <2>3 DEF IsUnit
    <3>2. PICK s \in Nat : /\ IsFirst(s, answer.from + 1, NonSpace)
                           /\ IsFirst(answer.upto, s, NonLetter)
                           /\ answer.got = Places(s, answer.upto - 1)
      BY <3>1 DEF IsWord
    <3>3. FirstFrom(answer.from + 1, Classes \ {"space"}) = s
      BY <2>1, <3>1, <3>2, FirstIs DEF NonSpace
    <3>4. FirstFrom(s, Classes \ {"letter"}) = answer.upto
      BY <2>1, <3>1, <3>2, FirstIs DEF NonLetter
    <3>5. WordUnit
      BY <3>2, <3>3, <3>4 DEF WordUnit
    <3> QED
      BY <2>3, <3>5
  <2>4. CASE answer.kind = "readByte"
    BY <2>1, <2>4 DEF IsUnit, IsByte
  <2>5. CASE answer.kind \notin {"getLine", "getWord", "readByte"}
    BY <2>1, <2>5 DEF IsUnit
  <2> QED
    BY <2>2, <2>3, <2>4, <2>5
<1> QED
  BY <1>1, ReaderStarts, ReaderSteps, PTL DEF ReaderSpec
=============================================================================
