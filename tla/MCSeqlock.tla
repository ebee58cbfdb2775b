------------------------------ MODULE MCSeqlock ------------------------------
(* A small instance of Seqlock for TLC. *)
EXTENDS Seqlock, TLC

CONSTANTS r1, r2, bid, ask

MCReaders == {r1, r2}
MCWords   == {bid, ask}
Symmetry  == Permutations(MCReaders) \cup Permutations(MCWords)
=============================================================================
