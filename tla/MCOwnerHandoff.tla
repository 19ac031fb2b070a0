-------------------------- MODULE MCOwnerHandoff --------------------------
(* The handoff protocol on small clusters.                                 *)
EXTENDS OwnerHandoff, TLC

\* Members other than the chef are interchangeable, and so are the chef's
\* requests.
HandoffSymmetry == Permutations(Node \ {Chef}) \cup Permutations(Saga)
=============================================================================
