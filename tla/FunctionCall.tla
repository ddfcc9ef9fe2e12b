---------------------------- MODULE FunctionCall ----------------------------
(***************************************************************************)
(* A helper that is called once, with any of its inputs.                   *)
(***************************************************************************)

VARIABLE given   \* what is called or run, and the arguments

Given(fn) == given[1] = fn
=============================================================================
