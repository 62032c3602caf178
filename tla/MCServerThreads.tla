-------------------------- MODULE MCServerThreads --------------------------
(* Instances of ServerThreads: c1 and c2 are interchangeable, and the peer of
   the unreachable connection never takes a response. *)
EXTENDS ServerThreads, TLC

CONSTANTS c1, c2, c3

TwoConns   == {c1, c3}
ThreeConns == {c1, c2, c3}
Stalled    == {c3}
Symmetry   == Permutations({c1, c2})
=============================================================================
