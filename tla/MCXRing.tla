------------------------------ MODULE MCXRing ------------------------------
(***************************************************************************)
(* Model checking of XRing with several producers and several consumers.   *)
(***************************************************************************)
EXTENDS XRing, TLC

\* No action tells two producers or two consumers apart, and the runs that
\* use the symmetry check invariants only.
Symmetry == Permutations(Producers) \cup Permutations(Consumers)
=============================================================================
