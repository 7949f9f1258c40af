--------------------------- MODULE MCScheduleTick ---------------------------
(***************************************************************************)
(* Instances of ScheduleTick for TLC.                                      *)
(***************************************************************************)
EXTENDS ScheduleTick, TLC

Symmetry == Permutations(Run)

\* No CLI registers a session here, so toClose influences nothing; nor does it
\* matter how a run ended.
RunView ==
    <<[r \in Run |-> IF status[r] \in Terminal THEN "over" ELSE status[r]],
      rowVars, flowVars, lifeVars, clock>>

\* The cron expression c stands for every c-th moment of the clock.
EveryCth == [c \in Cadence |-> [t \in Time |-> c * ((t \div c) + 1)]]
=============================================================================
