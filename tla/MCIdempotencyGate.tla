--------------------------- MODULE MCIdempotencyGate ---------------------------
(***************************************************************************)
(* Instances of IdempotencyGate for TLC.                                   *)
(***************************************************************************)
EXTENDS IdempotencyGate, TLC

CONSTANTS r1, r2, r3, r4

\* A request, two repeats of it, and a different request under the same key.
ThreeAlike == r1 :> "A" @@ r2 :> "A" @@ r3 :> "A" @@ r4 :> "B"

Symmetry == Permutations({r1, r2, r3})

================================================================================
