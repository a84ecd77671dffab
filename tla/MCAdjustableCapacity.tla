----------------------- MODULE MCAdjustableCapacity -----------------------
(* Four tasks, and the limit requests -1 .. 3 that cover the clamp to 1.   *)
EXTENDS AdjustableCapacity

MCRequest == {-1, 1, 2, 3}
===========================================================================
