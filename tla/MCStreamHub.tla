---------------------------- MODULE MCStreamHub ----------------------------
(* StreamHub for TLC: which records the cache may hold.                    *)
EXTENDS StreamHub, TLC

\* One record: vessels only come and go.
MCOne == {[ts |-> 0, tag |-> "a"]}

\* Safety only: neither connections nor vessels are told apart.
Symmetry == Permutations(Conns) \cup Permutations(Vessels)
=============================================================================
