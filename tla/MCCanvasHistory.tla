-------------------------- MODULE MCCanvasHistory --------------------------
(* Model-checking definitions for CanvasHistory. The layouts are only       *)
(* compared with each other, so they are interchangeable; the nodes are     *)
(* not, as the one wire has a direction.                                    *)
EXTENDS CanvasHistory, TLC

CONSTANTS a, b, p, q

OneWire == {<<a, b>>}

LayoutSymmetry == Permutations(Layouts)
=============================================================================
