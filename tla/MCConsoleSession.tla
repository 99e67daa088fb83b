-------------------------- MODULE MCConsoleSession --------------------------
(* Two wallets, two challenges, two operations, two submissions and two demos of one *)
(* client, four of them in one behaviour.                                            *)
EXTENDS ConsoleSession, TLC

Symmetry == Permutations(Owners) \cup Permutations(Operations) \cup Permutations(Submits)
                \cup Permutations(Demos)
=============================================================================
