---------------------------- MODULE SerialReader ----------------------------
(***************************************************************************)
(* Class xserial::ComPort, reading from an open port: bytes arrive at any  *)
(* time, and readByte(), getLine() and getWord() poll for them.  A byte is *)
(* known by its place in the stream; only what ends a line or a word is    *)
(* told apart.                                                             *)
(***************************************************************************)
EXTENDS Integers, Sequences

CONSTANTS
    MaxBytes,   \* bound: bytes that arrive
    MaxPolls    \* the polls of readByte() on Linux, 100 in the code

ASSUME ReaderAssumption == MaxBytes \in Nat /\ MaxPolls \in Nat \ {0}

Classes == {"letter", "space", "newline", "nul"}
Calls == {"read", "readByte", "getLine", "getWord"}

VARIABLES
    onWindows,  \* the build, for good
    stream,     \* the class of each byte that has arrived
    pos,        \* bytes taken from the driver's buffer so far
    call,       \* the call that runs, or "none"
    from,       \* pos when it began
    bytesAvaiable, itimes,   \* locals of readByte()
    strLine,    \* the local of getLine() and getWord(): places in the stream
    isStart,    \* the local of getWord()
    answer      \* the last call that returned: kind, from, upto, got, cut

readerVars == <<onWindows, stream, pos, call, from, bytesAvaiable,
                itimes, strLine, isStart, answer>>

InQueue == Len(stream) - pos

ReaderInit ==
    /\ onWindows \in BOOLEAN
    /\ stream = <<>> /\ pos = 0
    /\ call = "none" /\ from = 0
    /\ bytesAvaiable = 0 /\ itimes = 0
    /\ strLine = <<>> /\ isStart = FALSE
    /\ answer = [kind |-> "none", from |-> 0, upto |-> 0, got |-> <<>>, cut |-> FALSE]

ByteArrives ==
    /\ Len(stream) < MaxBytes
    /\ \E c \in Classes : stream' = Append(stream, c)
    /\ UNCHANGED <<onWindows, pos, call, from, bytesAvaiable, itimes,
                   strLine, isStart, answer>>

Begin(kind) ==
    /\ call = "none"
    /\ call' = kind /\ from' = pos
    /\ bytesAvaiable' = InQueue /\ itimes' = 0
    /\ strLine' = <<>> /\ isStart' = FALSE
    /\ UNCHANGED <<onWindows, stream, pos, answer>>

\* The call returns after it has taken the bytes up to upto.
Returns(upto, got, cut) ==
    /\ pos' = upto
    /\ call' = "none"
    /\ answer' = [kind |-> call, from |-> from, upto |-> upto, got |-> got,
                  cut |-> cut]
    /\ UNCHANGED <<onWindows, stream, from, bytesAvaiable, itimes>>

Places(first, last) == [k \in 1 .. last - first + 1 |-> first + k - 1]

\* read(data, max): what is there, at most max bytes; nothing at an error.
ReadSome ==
    /\ call = "read"
    /\ \E n \in 0 .. InQueue : Returns(pos + n, Places(pos + 1, pos + n), FALSE)
    /\ UNCHANGED <<strLine, isStart>>

-----------------------------------------------------------------------------
\* readByte(), Linux: poll while nothing is there, but not for ever, ...
Poll ==
    /\ call = "readByte" /\ ~onWindows
    /\ bytesAvaiable = 0 /\ itimes < MaxPolls
    /\ bytesAvaiable' = InQueue /\ itimes' = itimes + 1
    /\ UNCHANGED <<onWindows, stream, pos, call, from, strLine, isStart,
                   answer>>

\* ... give up, even when the last poll has found something, ...
GiveUp ==
    /\ call = "readByte" /\ ~onWindows /\ itimes >= MaxPolls
    /\ Returns(pos, <<>>, TRUE)
    /\ UNCHANGED <<strLine, isStart>>

\* ... or read() as many bytes as were there into one char.  It may fail or
\* read nothing; more than one byte overwrites what is behind the char, which
\* is undefined: the first byte is returned, or what a failure returns.
TakeByte ==
    /\ call = "readByte" /\ ~onWindows
    /\ bytesAvaiable > 0 /\ itimes < MaxPolls
    /\ \E n \in 0 .. bytesAvaiable :
         \/ n > 0 /\ Returns(pos + n, <<pos + 1>>, FALSE)
         \/ n # 1 /\ Returns(pos + n, <<>>, TRUE)
    /\ UNCHANGED <<strLine, isStart>>

\* On Windows readByte() polls until there is a byte, and reads one, or fails.
TakeByteWindows ==
    /\ call = "readByte" /\ onWindows /\ InQueue > 0
    /\ \/ Returns(pos + 1, <<pos + 1>>, FALSE)
       \/ Returns(pos, <<>>, TRUE)
    /\ UNCHANGED <<strLine, isStart>>

-----------------------------------------------------------------------------
NextByte == stream[pos + 1]

\* getLine() reads one byte at a time, to the newline.
LineEnds == NextByte = "newline"

GetLineStep ==
    /\ call = "getLine" /\ InQueue > 0
    /\ UNCHANGED isStart
    /\ IF LineEnds
         THEN Returns(pos + 1, strLine, FALSE) /\ UNCHANGED strLine
         ELSE /\ pos' = pos + 1
              /\ strLine' = Append(strLine, pos + 1)
              /\ UNCHANGED <<onWindows, stream, call, from, answer,
                             bytesAvaiable, itimes>>

\* getWord() skips spaces, then reads to a space, a zero or a newline.
Started == isStart \/ NextByte # "space"
M_WordEnds == Started /\ NextByte \in {"space", "nul"}
WordEnds == Started /\ NextByte \in {"space", "nul", "newline"}

GetWordStep ==
    /\ call = "getWord" /\ InQueue > 0
    /\ isStart' = Started
    /\ IF WordEnds
         THEN Returns(pos + 1, strLine, FALSE) /\ UNCHANGED strLine
         ELSE /\ pos' = pos + 1
              /\ strLine' = IF Started THEN Append(strLine, pos + 1) ELSE strLine
              /\ UNCHANGED <<onWindows, stream, call, from, answer,
                             bytesAvaiable, itimes>>

\* read() of the system fails: the call returns what it has.
ReadFails ==
    /\ call \in {"getLine", "getWord"} /\ InQueue > 0
    /\ Returns(pos, strLine, TRUE)
    /\ UNCHANGED <<strLine, isStart>>

ReaderGoesOn ==
    \/ ReadSome \/ Poll \/ GiveUp \/ TakeByte \/ TakeByteWindows
    \/ GetLineStep \/ GetWordStep \/ ReadFails

ReaderNext == ByteArrives \/ ReaderGoesOn \/ \E kind \in Calls : Begin(kind)
ReaderSpec == ReaderInit /\ [][ReaderNext]_readerVars

-----------------------------------------------------------------------------
FirstFrom(i, classes) ==
    CHOOSE k \in i .. Len(stream) :
        stream[k] \in classes /\ \A j \in i .. k - 1 : stream[j] \notin classes

LineUnit == LET k == FirstFrom(answer.from + 1, {"newline"}) IN
    answer.upto = k /\ answer.got = Places(answer.from + 1, k - 1)

WordUnit ==
    LET s == FirstFrom(answer.from + 1, Classes \ {"space"})
        k == FirstFrom(s, Classes \ {"letter"})
    IN  answer.upto = k /\ answer.got = Places(s, k - 1)

(* Whatever the moments at which bytes arrive, a call that returns without  *)
(* an error returns exactly the next byte, line or word of the stream, and  *)
(* takes no byte behind it, so that the next call goes on where this one    *)
(* ended: but for readByte() on Linux, which takes more than it returns     *)
(* (see OneByteTaken).  A word ends at a zero byte too, of which the header *)
(* (xserial.hpp:252) does not speak.                                        *)
UnitsWhole == ~answer.cut =>
    CASE answer.kind = "getLine"  -> LineUnit
      [] answer.kind = "getWord"  -> WordUnit
      [] answer.kind = "readByte" ->
            /\ answer.got = <<answer.from + 1>>
            /\ onWindows => answer.upto = answer.from + 1
      [] OTHER -> answer.got = Places(answer.from + 1, answer.upto)

(* "The function reads one byte from the port" (xserial.hpp:233).           *)
OneByteTaken == answer.kind = "readByte" => answer.upto <= answer.from + 1
=============================================================================
