---- MODULE MCProjection ----
(* Instances of Projection: the live worker alone, and beside a rebuild    *)
(* that was started by hand.                                               *)
EXTENDS Projection

Live == {"live"}
LiveAndCli == {"live", "cli"}
=============================
