---------------------------- MODULE MCImageCache ----------------------------
(* Builds for TLC.  Solo: one process, a and b side by side, c on a's image. *)
(* Shared: a second process runs the same first step a, or another one.      *)
EXTENDS ImageCache

CONSTANTS p, q, a, b, c, ka, kb, kc

SoloProcOf == [j \in Jobs |-> p]
SharedProcOf == [j \in Jobs |-> IF j = b THEN q ELSE p]

SoloKeyOf == [j \in Jobs |-> CASE j = a -> ka [] j = b -> kb [] j = c -> kc]
SharedKeyOf == [j \in Jobs |-> IF j = c THEN kc ELSE ka]

ChildOfA == [j \in Jobs |-> IF j = c THEN a ELSE NoJob]

=============================================================================
