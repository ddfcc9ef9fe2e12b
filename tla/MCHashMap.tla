----------------------------- MODULE MCHashMap ------------------------------
(***************************************************************************)
(* Model checking of HashMap: hash codes of both signs, among them codes   *)
(* that collide for some capacities and not for others.                    *)
(***************************************************************************)
EXTENDS HashMap

MCCodes == {-4, -1, 3}
=============================================================================
