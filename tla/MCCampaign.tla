----------------------------- MODULE MCCampaign -----------------------------
(* Two edges, of which the network may list one and rule out the other;    *)
(* rounds of at most two inputs, two rounds to a series: a round can end   *)
(* either way, a pause can follow, end, and be followed by another round.  *)
EXTENDS Campaign

CONSTANTS e1, e2

MCEdges == {e1, e2}
MCFirst == {e1}
MCTraces == {{e1}, {e2}, {e1, e2}}
=============================================================================
