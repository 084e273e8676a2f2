-------------------------- MODULE AbstractBarrier --------------------------
(***************************************************************************)
(* What a barrier promises to a fixed set of threads that meet at it round *)
(* after round: nobody leaves a round that somebody has still to enter.    *)
(***************************************************************************)
EXTENDS Naturals

CONSTANT Threads

VARIABLES entered,   \* thread -> rounds it has entered
          left       \* thread -> rounds it has left

AbsInit ==
    /\ entered = [t \in Threads |-> 0]
    /\ left = [t \in Threads |-> 0]

Meet(t) ==
    /\ entered[t] = left[t]
    /\ entered' = [entered EXCEPT ![t] = @ + 1]
    /\ UNCHANGED left

Part(t) ==
    /\ left[t] < entered[t]
    /\ \A u \in Threads : entered[t] <= entered[u]
    /\ left' = [left EXCEPT ![t] = @ + 1]
    /\ UNCHANGED entered

AbsNext == \E t \in Threads : Meet(t) \/ Part(t)
AbsSpec == AbsInit /\ [][AbsNext]_<<entered, left>>
=============================================================================
