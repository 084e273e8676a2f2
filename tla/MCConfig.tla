----------------------------- MODULE MCConfig -----------------------------
(* Values of the constants of Config. *)
EXTENDS Config

MCFirstLines ==
    {Header("s1", form) : form \in {"exact", "loose"}}
    \cup {Header("s2", form) : form \in {"exact", "tail"}}
    \cup {Option("n1", <<"w1">>, form) : form \in {"exact", "loose", "colon"}}
    \cup {Option("n2", value, "exact") : value \in {<<"w1">>, <<"n1">>}}
    \cup {Remark}

MCNewValues == {<<"w1">>, <<"w2", "#", "w1">>, <<"w2", " ;", "w1">>}
=============================================================================
