-------------------------- MODULE MCServerSessions --------------------------
(* Instances of ServerSessions for TLC.                                    *)
EXTENDS SessionRefinement, TLC

\* Connections, states and ids are only compared with each other.
Symmetry == Permutations(Conns) \cup Permutations(States) \cup Permutations(Sids)
=============================================================================
