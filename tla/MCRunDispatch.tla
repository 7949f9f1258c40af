---------------------------- MODULE MCRunDispatch ----------------------------
(***************************************************************************)
(* The instance of RunDispatch for TLC: one run, which every launch of the *)
(* app may meet again (dispatch_*.cfg).  What several runs share, the poll *)
(* thread, the registry and the close handler, is the matter of the        *)
(* theorems, which hold for every set of runs.                             *)
(***************************************************************************)
EXTENDS RunDispatch
=============================================================================
