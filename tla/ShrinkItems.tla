----------------------------- MODULE ShrinkItems -----------------------------
(***************************************************************************)
(* The items of the sequence the shrinkers of shrink.rs are given.  They   *)
(* keep their order, so each is known by its position in that sequence.    *)
(***************************************************************************)
EXTENDS Naturals

CONSTANT Len     \* length of the original sequence

ASSUME LenAssumption == Len \in Nat

Positions == 1 .. Len
=============================================================================
