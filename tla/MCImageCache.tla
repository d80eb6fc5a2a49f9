---------------------------- MODULE MCImageCache ----------------------------
(* Instances of ImageCache for TLC. *)
EXTENDS ImageCache, TLC

CONSTANTS old, new

TwoImages == [b \in Binary |-> IF b = old THEN "zot 1" ELSE "zot 2"]

(* The runs are alike. *)
Alike == Permutations(Caller)
=============================================================================
