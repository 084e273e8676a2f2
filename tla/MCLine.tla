------------------------------- MODULE MCLine -------------------------------
(* Values of SerialLine's constants: ports whose numbers are equal modulo   *)
(* CharSize, and parameters of every kind, accepted or refused.             *)
EXTENDS SerialLine

MCPlain == {<<"ttyUSB", 1>>}
MCOld == {<<"ttyS", 1>>, <<"ttyS", 2>>}
MCUnknown == {<<"ttyS", 2>>}
MCComs == {<<"COM", 1>>, <<"COM", 5>>}

MCLeft == {
    [PARENB |-> FALSE, PARODD |-> FALSE, CSTOPB |-> FALSE, CSIZE |-> {1, 2},
     speed |-> 9600],
    [PARENB |-> TRUE, PARODD |-> TRUE, CSTOPB |-> TRUE, CSIZE |-> {2},
     speed |-> 300] }

Ask(speed, parity, bits, stop) ==
    [speed |-> speed, parity |-> parity, bits |-> bits, stop |-> stop]
MCAsks == {
    Ask(9600, "even", 6, "two"), Ask(300, "odd", 8, "one"),
    Ask(300, "none", 5, "one5"), Ask(9600, "mark", 8, "one5") }
=============================================================================
