----------------------------- MODULE MCTopRated -----------------------------
(* Three edges and three entries: two that share an edge and one that has  *)
(* everything can win slots of each other in any order.                    *)
EXTENDS TopRated

MCTraces == {{1}, {2, 3}, {1, 2, 3}}
MCCosts == {1, 2}
MCLists == {{1, 3}}
=============================================================================
