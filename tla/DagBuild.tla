------------------------------ MODULE DagBuild ------------------------------
(***************************************************************************)
(* What a build promises, whichever way its steps are scheduled: a step is *)
(* started only on the success of everything it depends on, what is not    *)
(* started has a reason, nothing is started or settled twice, and the      *)
(* build is over only when every step is settled.                          *)
(***************************************************************************)
CONSTANTS
  Steps,  \* nodes of the pipeline DAG
  Edges   \* <<predecessor, successor>>

VARIABLES
  st,     \* each step: idle, active, passed, failed or skipped
  stop,   \* the build was told to stop (user, deadline or failing fast)
  over    \* the build has returned

vars == <<st, stop, over>>

Before(s) == {p \in Steps : <<p, s>> \in Edges}
Settled(s) == st[s] \in {"passed", "failed", "skipped"}

Init ==
  /\ st = [s \in Steps |-> "idle"]
  /\ stop = FALSE
  /\ over = FALSE

Start(s) ==
  /\ st[s] = "idle"
  /\ \A p \in Before(s) : st[p] = "passed"
  /\ st' = [st EXCEPT ![s] = "active"]
  /\ UNCHANGED <<stop, over>>

Pass(s) ==
  /\ st[s] = "active"
  /\ st' = [st EXCEPT ![s] = "passed"]
  /\ UNCHANGED <<stop, over>>

\* A failure may stop the build.
Fail(s) ==
  /\ st[s] = "active"
  /\ st' = [st EXCEPT ![s] = "failed"]
  /\ stop' \in {stop, TRUE}
  /\ UNCHANGED over

Skip(s) ==
  /\ st[s] = "idle"
  /\ \A p \in Before(s) : Settled(p)
  /\ stop \/ \E p \in Before(s) : st[p] \in {"failed", "skipped"}
  /\ st' = [st EXCEPT ![s] = "skipped"]
  /\ UNCHANGED <<stop, over>>

Stop ==
  /\ ~over
  /\ stop' = TRUE
  /\ UNCHANGED <<st, over>>

Return ==
  /\ ~over
  /\ \A s \in Steps : Settled(s)
  /\ over' = TRUE
  /\ UNCHANGED <<st, stop>>

Next ==
  \/ \E s \in Steps : Start(s) \/ Pass(s) \/ Fail(s) \/ Skip(s)
  \/ Stop \/ Return

Spec == Init /\ [][Next]_vars

=============================================================================
