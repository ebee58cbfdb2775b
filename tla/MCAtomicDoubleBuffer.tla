------------------------ MODULE MCAtomicDoubleBuffer ------------------------
(* A small instance of AtomicDoubleBuffer for TLC. *)
EXTENDS AtomicDoubleBuffer, TLC

CONSTANTS usd, token

MCWords  == {usd, token}
Symmetry == Permutations(MCWords)
=============================================================================
