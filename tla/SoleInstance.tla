---------------------------- MODULE SoleInstance ----------------------------
(***************************************************************************)
(* What class OneInstance promises: of all the processes that ask, at most *)
(* one at a time is told that it is the only instance of the program, and  *)
(* that answer stands until the process is gone.                           *)
(***************************************************************************)
CONSTANT Procs

VARIABLE told    \* the processes that were told so and still run

SoleInit == told = {}

Tell(p) == told = {} /\ told' = {p}
Gone(p) == p \in told /\ told' = told \ {p}

SoleNext == \E p \in Procs : Tell(p) \/ Gone(p)
SoleSpec == SoleInit /\ [][SoleNext]_told
=============================================================================
