------------------------------ MODULE BuildFeed ------------------------------
(***************************************************************************)
(* What a renderer may rely on in the events of one build, whichever       *)
(* backend they come from: a step is queued, then started, its log lines   *)
(* come only while it is started, it is closed at most once, and nothing   *)
(* follows the end of the build.  A step may be closed that never started: *)
(* a job the server skipped.                                               *)
(***************************************************************************)
EXTENDS Sequences

CONSTANTS Jobs

VARIABLES
  feed,  \* what was shown of each step, in order
  over   \* BuildEnd has been shown

vars == <<feed, over>>

Init ==
  /\ feed = [j \in Jobs |-> <<>>]
  /\ over = FALSE

Fresh(j) == feed[j] = <<>>
Running(j) == ~Fresh(j) /\ feed[j][Len(feed[j])] \in {"started", "log"}

Show(j, kind) ==
  /\ ~over
  /\ feed' = [feed EXCEPT ![j] = Append(@, kind)]
  /\ UNCHANGED over

Queue(j) == Fresh(j) /\ Show(j, "queued")
Start(j) == feed[j] = <<"queued">> /\ Show(j, "started")
Log(j) == Running(j) /\ Show(j, "log")
End(j) == (Fresh(j) \/ Running(j)) /\ Show(j, "ended")

Close ==
  /\ ~over
  /\ over' = TRUE
  /\ UNCHANGED feed

Next == (\E j \in Jobs : Queue(j) \/ Start(j) \/ Log(j) \/ End(j)) \/ Close

Spec == Init /\ [][Next]_vars

=============================================================================
