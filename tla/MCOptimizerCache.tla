-------------------------- MODULE MCOptimizerCache --------------------------
(* Small instances of OptimizerCache for TLC.                              *)
EXTENDS OptimizerCache, TLC

CONSTANTS w1, w2, k1, k2, k3, se3

Symmetry == Permutations(Workers)

(* Two forecasts for places next to each other in the second run, the      *)
(* weather of a third place, which is old by then, before and after it.    *)
TwoForecasts == {k1, k2}
Neighbours   == {<<k, k>> : k \in Keys} \cup {<<k1, k2>>, <<k2, k1>>}
Exchanged    == [r \in 1 .. MaxRuns |-> IF r = 2 THEN {k1, k2} ELSE {k3}]

(* The same facilities, in places far from each other.                     *)
OneForecast == {k1}
Apart       == {<<k, k>> : k \in Keys}
Same        == [r \in 1 .. MaxRuns |-> Keys]

NoFaults == {}
=============================================================================
