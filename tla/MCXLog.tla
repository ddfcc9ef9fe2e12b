------------------------------- MODULE MCXLog -------------------------------
(***************************************************************************)
(* Model checking of XLog with levels below, at both ends of, and above    *)
(* the six named ones, as ints of four bits.                               *)
(***************************************************************************)
EXTENDS XLog

MCLevels == {-1, 2, 5, 7}
=============================================================================
