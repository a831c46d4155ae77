-------------------------- MODULE MCDependencyWaves --------------------------
(* The resolver over four ids: lists in rising, falling and mixed order, a *)
(* shorter list whose tasks may name one outside it, a list with an id     *)
(* twice, and the empty one.                                               *)
EXTENDS DependencyWaves

MCOrders == {<<1, 2, 3, 4>>, <<4, 2, 3, 1>>, <<3, 1, 2>>, <<2, 1, 2>>, << >>}
=============================================================================
