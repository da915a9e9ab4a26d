------------------------------ MODULE LossyFifo ------------------------------
(***************************************************************************)
(* A queue that never makes its writer wait: a reader gets the items in    *)
(* the order they were put, none of them twice, and may miss some.         *)
(***************************************************************************)
EXTENDS Naturals, Sequences

VARIABLES
  put,  \* how many items were put; an item is its number
  got   \* the items read, in order

vars == <<put, got>>

LastGot == IF got = <<>> THEN 0 ELSE got[Len(got)]

Init == put = 0 /\ got = <<>>

\* One item or several at once.
Put == put' \in Nat /\ put' > put /\ UNCHANGED got

Get ==
  /\ \E i \in (LastGot + 1)..put : got' = Append(got, i)
  /\ UNCHANGED put

Spec == Init /\ [][Put \/ Get]_vars

=============================================================================
