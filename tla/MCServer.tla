------------------------------ MODULE MCServer ------------------------------
(* Instances of Server for TLC. *)
EXTENDS BrokerRefinement, TLC

CONSTANTS c1, c2, c3, a, b, empty, t1, t2

\* Two runs of the subscriber a, which can overlap, and one of b.
MCConns == {c1, c2, c3}
MCIds   == {a, b, empty}
MCIdOf  == c1 :> a @@ c2 :> a @@ c3 :> b

\* Two runs of a only.
PairConns == {c1, c2}
PairIds   == {a, empty}
PairIdOf  == c1 :> a @@ c2 :> a

\* Three runs of a.
TripleIdOf == c1 :> a @@ c2 :> a @@ c3 :> a

MCTopics  == {t1}
TwoTopics == {t1, t2}

\* c1 and c2 are runs of the same subscriber: exchanging them changes nothing.
Symmetry     == Permutations({c1, c2})
PairSymmetry == Symmetry \cup Permutations({t1, t2})

=============================================================================
