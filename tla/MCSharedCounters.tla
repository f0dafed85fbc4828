-------------------------- MODULE MCSharedCounters --------------------------
(* Two workers, and clients whose probe runs may or may not meet.            *)
EXTENDS SharedCounters, TLC

Symmetry == Permutations(Workers) \cup Permutations(Clients)

============================================================================
