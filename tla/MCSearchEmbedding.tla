-------------------------- MODULE MCSearchEmbedding --------------------------
(* SearchEmbedding on small instances: one keyword searched three times at   *)
(* once, and two keywords that share the permit of the process.              *)
EXTENDS SearchEmbedding, TLC

CONSTANTS r1, r2, r3, rust, redis, backend

MCThree      == {r1, r2, r3}
MCOneKey     == {rust}
MCTwoKeys    == {rust, redis}
MCOneProcess == {backend}

MCSameKey   == [r \in Requests |-> rust]
MCMixedKeys == [r \in Requests |-> IF r = r3 THEN redis ELSE rust]

MCAllHere   == [r \in Requests |-> backend]

MCSymmetry == Permutations(MCThree)
=============================================================================
