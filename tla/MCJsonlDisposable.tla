-------------------------- MODULE MCJsonlDisposable -------------------------
(* Two processes and a lookup while sidecars disappear.  The passing run   *)
(* has two ids that swapping the bytes swaps; for what is shown beside it, *)
(* an offset behind the line of one id is in the middle of another's.      *)
EXTENDS JsonlDisposable, TLC

CONSTANTS b1, b2

TwoIds == {<<b1, b2>>, <<b2, b1>>}

UnevenIds == {<<b1>>, <<b2>>, <<b2, b2, b2>>}

Swaps == Permutations(Handle) \cup Permutations(Byte)

Symmetry == Permutations(Handle)
=============================================================================
