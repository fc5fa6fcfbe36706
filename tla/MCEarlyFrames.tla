---------------------------- MODULE MCEarlyFrames ----------------------------
(* Instances of EarlyFrames for TLC. *)
EXTENDS EarlyFrames, TLC

CONSTANTS a, b

TwoIds == {a, b}
OneByte == {1}
Swaps == Permutations(Ids)

=============================================================================
