----------------------------- MODULE MCTcpServ -----------------------------
(* Instances of TcpServ for TLC: values of its constants. *)
EXTENDS TcpServ, TLC

CONSTANTS a, b, c, d, i1, i2, i3

TwoConns   == {a, b}
ThreeConns == {a, b, c}
FourConns  == {a, b, c, d}

TwoIds   == {i1, i2}
ThreeIds == {i1, i2, i3}

\* Connections are interchangeable, and so are thread ids (no liveness property
\* is checked with it).
Symmetry == Permutations(Conns) \cup Permutations(Ids)

\* For liveness, where TLC's symmetry is not sound: connections that have not
\* arrived are alike, so they may as well arrive in the order of their names.
Order == <<a, b, c, d>>
InOrder == \A j, k \in 1 .. Len(Order) : j < k /\ {Order[j], Order[k]} \subseteq Conns
    => (net[Order[j]] = "idle" /\ net[Order[k]] = "idle" => net'[Order[k]] = "idle")
=============================================================================
