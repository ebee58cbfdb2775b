------------------------------ MODULE TokenBucket ------------------------------
(***************************************************************************)
(* What safety/rate_limiter.py promises: a bucket that time fills without  *)
(* a pause, to no more than Burst tokens, and that a caller must find a    *)
(* whole token in.  A token is Grain units, and a unit of time adds one;   *)
(* parity tells the tokens taken.                                          *)
(***************************************************************************)
EXTENDS Naturals

CONSTANTS Burst, Grain

VARIABLES level, parity

BucketInit == level = Burst * Grain /\ parity = 0

Fill ==
  /\ level < Burst * Grain
  /\ level' = level + 1
  /\ UNCHANGED parity

Take ==
  /\ level >= Grain
  /\ level' = level - Grain
  /\ parity' = 1 - parity

BucketSpec == BucketInit /\ [][Fill \/ Take]_<<level, parity>>

=============================================================================
