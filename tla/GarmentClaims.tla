---------------------------- MODULE GarmentClaims ----------------------------
(***************************************************************************)
(* What a comment says of garments, and the code does not do: checked      *)
(* alone and refuted by a run of its own.                                  *)
(***************************************************************************)
EXTENDS GarmentLifecycle

(* stateMachine.ts:6 "sold and retired are terminal": a retired garment    *)
(* never circulates again.  A move checked before it was retired does it.  *)
RetiredIsTerminal ==
  [][\A u \in Units : stage[u] = "retired" => stage'[u] = "retired"]_vars
=============================================================================
