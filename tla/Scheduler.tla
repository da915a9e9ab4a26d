----------------------------- MODULE Scheduler -----------------------------
(***************************************************************************)
(* The local dataflow scheduler (hm-core/src/exec/local/scheduler.rs).     *)
(*                                                                         *)
(* One task per step of the pipeline DAG: it joins its predecessors, looks *)
(* once at the cancellation token and at the predecessors' outcomes, waits *)
(* for a parallelism permit, runs the step on its runner, fails fast, and  *)
(* publishes an outcome.  The build task races the join of all steps       *)
(* against the pipeline deadline, drains, reaps the ephemeral images and   *)
(* derives the verdict.                                                    *)
(*                                                                         *)
(* Permits are handed out in any order (tokio's semaphore is FIFO, one of  *)
(* those orders).  Images are named by the step that commits them; what    *)
(* the image registry evicts is the subject of ImageCache.                 *)
(***************************************************************************)
EXTENDS Naturals, FiniteSets, Sequences

CONSTANTS
  Steps,        \* nodes of the pipeline DAG
  BuildsIn,     \* edges <<parent, child>>: the child starts from the parent's image
  DependsOn,    \* edges <<parent, child>>: order only
  Parallelism,  \* permits of the semaphore (NonZeroUsize)
  KeepGoing,    \* -k / --keep-going
  HasDeadline,  \* the pipeline has a timeout_seconds
  Timed,        \* steps with a timeout_seconds of their own
  Cached,       \* steps with a stable cache tag
  Unresolved,   \* steps that name a runner nobody registered
  NoImage       \* no parent snapshot: boot from a base image

Edges == BuildsIn \union DependsOn
Preds(s) == {p \in Steps : <<p, s>> \in Edges}
Lineage(s) == {p \in Steps : <<p, s>> \in BuildsIn}

ASSUME StepsAssumption == IsFiniteSet(Steps)
ASSUME EdgesAssumption == BuildsIn \subseteq Steps \X Steps /\ DependsOn \subseteq Steps \X Steps
ASSUME ParallelismAssumption == Parallelism \in Nat \ {0}
ASSUME OptionsAssumption == KeepGoing \in BOOLEAN /\ HasDeadline \in BOOLEAN
ASSUME SubsetsAssumption ==
  Timed \subseteq Steps /\ Cached \subseteq Steps /\ Unresolved \subseteq Steps
ASSUME NoImageAssumption == NoImage \notin Steps

VARIABLES
  pc,           \* where each step's task is
  result,       \* how each step ended (the StepOutcome is a function of it)
  base,         \* the image each launched step starts from
  trace,        \* the bus events emitted for each step, in order
  permits,      \* permits left in the semaphore
  cancel,       \* the build's cancellation token
  interrupted,  \* history: the user pressed Ctrl-C
  timedOut,     \* the deadline won the race against the join
  images,       \* images in the daemon, named by the step that committed them
  toReap,       \* ephemeral images the build task has still to remove
  unreaped,     \* history: removals that failed
  phase,        \* where the build task is
  verdict       \* BuildStatus, once returned

vars == <<pc, result, base, trace, permits, cancel, interrupted, timedOut,
          images, toReap, unreaped, phase, verdict>>
stepVars == <<pc, result, base, trace, permits>>
buildVars == <<interrupted, timedOut, toReap, unreaped, phase, verdict>>

-----------------------------------------------------------------------------
(* Step outcomes.  A result stands for the StepOutcome built from it: "ok"  *)
(* exit 0; "nonzero" any other exit of the command but 130; "sigint" a      *)
(* command that itself exits 130; "timeout" the per-step budget; "error" an *)
(* Err of the runner; "cut" the Err the runner makes of the cancellation;   *)
(* "unresolved" no such runner; "skipped" and "canceled" never launched.    *)

RunResults == {"ok", "nonzero", "sigint", "timeout", "error", "cut", "unresolved"}
Results == RunResults \union {"skipped", "canceled"}

NonZeroExit == RunResults \ {"ok"}
FailedOrSkipped == Results \ {"ok"}
WithSnapshot == {"ok"}
ReportedByChain == {"nonzero", "sigint", "timeout"}

Done(s) == pc[s] = "done"
Ready(s) == \A p \in Preds(s) : Done(p)

\* (mutant) gates on the exit code, which a skipped step reports as 0
BlockedByExit(s) == \E p \in Preds(s) : result[p] \in NonZeroExit

Blocked(s) == \E p \in Preds(s) : result[p] \in FailedOrSkipped

PermitHolders == {s \in Steps : pc[s] \in {"running", "committed", "ending"}}
Started == {s \in Steps : trace[s] # <<>>}

\* The snapshot of the first BuildsIn parent, if it has one.
ParentSnapshot(s) ==
  LET parent == CHOOSE p \in Lineage(s) : TRUE
  IN IF Lineage(s) # {} /\ result[parent] \in WithSnapshot THEN parent ELSE NoImage

-----------------------------------------------------------------------------
Init ==
  /\ pc = [s \in Steps |-> "waiting"]
  /\ result = [s \in Steps |-> "none"]
  /\ base = [s \in Steps |-> NoImage]
  /\ trace = [s \in Steps |-> <<>>]
  /\ permits = Parallelism
  /\ cancel = FALSE
  /\ interrupted = FALSE
  /\ timedOut = FALSE
  /\ images \in SUBSET Cached
  /\ toReap = {}
  /\ unreaped = {}
  /\ phase = "joining"
  /\ verdict = "none"

\* All predecessors are in and the step may not run: it publishes at once.
ShortCircuit(s) ==
  /\ pc[s] = "waiting"
  /\ Ready(s)
  /\ cancel \/ Blocked(s)
  /\ pc' = [pc EXCEPT ![s] = "done"]
  /\ result' = [result EXCEPT ![s] = IF cancel THEN "canceled" ELSE "skipped"]
  /\ UNCHANGED <<base, trace, permits, cancel, images, buildVars>>

\* All predecessors passed and the token was clear: wait for a permit.
Admit(s) ==
  /\ pc[s] = "waiting"
  /\ Ready(s)
  /\ ~cancel /\ ~Blocked(s)
  /\ pc' = [pc EXCEPT ![s] = "queued"]
  /\ UNCHANGED <<result, base, trace, permits, cancel, images, buildVars>>

\* A permit arrives; nobody looks at the token again.  A step whose runner
\* does not resolve leaves after StepStart, without a StepEnd.
Launch(s) ==
  /\ pc[s] = "queued"
  /\ permits > 0
  /\ permits' = permits - 1
  /\ base' = [base EXCEPT ![s] = ParentSnapshot(s)]
  /\ trace' = [trace EXCEPT ![s] = <<"StepQueued", "StepStart">>]
  /\ pc' = [pc EXCEPT ![s] = IF s \in Unresolved THEN "ending" ELSE "running"]
  /\ result' = [result EXCEPT ![s] = IF s \in Unresolved THEN "unresolved" ELSE @]
  /\ UNCHANGED <<cancel, images, buildVars>>

\* The step's future has an answer: emit `events` and close with result r.
Answer(s, r, events) ==
  /\ pc' = [pc EXCEPT ![s] = "ending"]
  /\ result' = [result EXCEPT ![s] = r]
  /\ trace' = [trace EXCEPT ![s] = @ \o events]
  /\ UNCHANGED <<base, permits, cancel, images, buildVars>>

\* HmVm finds the tag in the registry and the image in the daemon.
CacheHit(s) ==
  /\ pc[s] = "running"
  /\ s \in Cached \intersect images
  /\ Answer(s, "ok", <<"StepCacheHit", "StepEnd">>)

\* The command exited 0 and the daemon has committed its container; the
\* runner has still to hear of it and to destroy the container.
Commit(s) ==
  /\ pc[s] = "running"
  /\ pc' = [pc EXCEPT ![s] = "committed"]
  /\ images' = images \union {s}
  /\ UNCHANGED <<result, base, trace, permits, cancel, buildVars>>

Succeed(s) ==
  /\ pc[s] = "committed"
  /\ Answer(s, "ok", <<"StepEnd">>)

\* (mutant) propagates the runner's error before it reports the step's end
FailSilently(s) ==
  /\ pc[s] = "running"
  /\ \E r \in {"nonzero", "sigint", "error"} :
       Answer(s, r, IF r = "error" THEN <<>> ELSE <<"StepEnd">>)

\* The command exits nonzero, or the runner errs before the commit or in it:
\* the daemon may have made the image of a commit whose answer is lost or
\* comes after the client's timeout.
Fail(s) ==
  \/ /\ pc[s] = "running"
     /\ \E r \in {"nonzero", "sigint", "error"} : Answer(s, r, <<"StepEnd">>)
  \/ /\ pc[s] = "committed"
     /\ Answer(s, "error", <<"StepEnd">>)

\* (mutant) races the token against the command only, not the clean-up
CutShortCommand(s) ==
  /\ pc[s] = "running"
  /\ cancel
  /\ Answer(s, "cut", <<"StepEnd">>)

\* The runner's select picks the token: the execution is dropped where it is.
CutShort(s) ==
  /\ pc[s] \in {"running", "committed"}
  /\ cancel
  /\ Answer(s, "cut", <<"StepEnd">>)

\* The step's own budget elapses: the execution is dropped where it is.
StepTimeout(s) ==
  /\ pc[s] \in {"running", "committed"}
  /\ s \in Timed
  /\ Answer(s, "timeout", <<"StepEnd">>)

\* (mutant) gives the permit back on the Ok path only
ReleasedOnOk(s) == permits + (IF result[s] \in {"error", "unresolved"} THEN 0 ELSE 1)

\* The permit drops with the step's future, on every path.
Released(s) == permits + 1

CancelsBuild(s) == result[s] \in ReportedByChain /\ ~KeepGoing

\* Report the chain, fail fast, give the permit back and publish.
Publish(s) ==
  /\ pc[s] = "ending"
  /\ pc' = [pc EXCEPT ![s] = "done"]
  /\ trace' = [trace EXCEPT ![s] =
                 IF result[s] \in ReportedByChain THEN Append(@, "ChainFailed") ELSE @]
  /\ cancel' = (cancel \/ CancelsBuild(s))
  /\ permits' = Released(s)
  /\ UNCHANGED <<result, base, images, buildVars>>

-----------------------------------------------------------------------------
(* The build task and its environment.                                     *)

\* The pipeline's wall-clock budget wins the race against the join.
Deadline ==
  /\ HasDeadline
  /\ phase = "joining"
  /\ cancel' = TRUE
  /\ timedOut' = TRUE
  /\ phase' = "draining"
  /\ UNCHANGED <<stepVars, interrupted, images, toReap, unreaped, verdict>>

\* (mutant) tears down without the second join once the deadline has won
JoinedOrExpired == phase = "draining" \/ \A s \in Steps : Done(s)

Joined == \A s \in Steps : Done(s)

\* (mutant) takes the images of leaf steps only
LeafSnapshots ==
  {s \in Steps \ Cached : result[s] \in WithSnapshot /\ \A t \in Steps : s \notin Lineage(t)}

\* The ephemeral images the outcomes carry.
EphemeralSnapshots == {s \in Steps \ Cached : result[s] \in WithSnapshot}

\* Every step has published: collect the ephemeral images.
Drained ==
  /\ phase \in {"joining", "draining"}
  /\ Joined
  /\ toReap' = EphemeralSnapshots
  /\ phase' = "reaping"
  /\ UNCHANGED <<stepVars, cancel, interrupted, timedOut, images, unreaped, verdict>>

\* Best effort: a removal may fail, and is only logged.
Reap(s) ==
  /\ phase = "reaping"
  /\ s \in toReap
  /\ toReap' = toReap \ {s}
  /\ \/ images' = images \ {s} /\ UNCHANGED unreaped
     \/ unreaped' = unreaped \union {s} /\ UNCHANGED images
  /\ UNCHANGED <<stepVars, cancel, interrupted, timedOut, phase, verdict>>

\* (mutant) cancellation wins over the timeout that caused it
VerdictCancelFirst ==
  CASE cancel -> "Canceled"
    [] ~cancel /\ timedOut -> "TimedOut"
    [] ~timedOut /\ ~cancel /\ \E s \in Steps : result[s] \in NonZeroExit -> "Failed"
    [] OTHER -> "Passed"

\* (mutant) judges by the exit codes alone
VerdictByExit ==
  CASE timedOut -> "TimedOut"
    [] ~timedOut /\ \E s \in Steps : result[s] \in NonZeroExit -> "Failed"
    [] OTHER -> "Passed"

Verdict ==
  CASE timedOut -> "TimedOut"
    [] ~timedOut /\ cancel -> "Canceled"
    [] ~timedOut /\ ~cancel /\ \E s \in Steps : result[s] \in NonZeroExit -> "Failed"
    [] OTHER -> "Passed"

Conclude ==
  /\ phase = "reaping"
  /\ toReap = {}
  /\ verdict' = Verdict
  /\ phase' = "returned"
  /\ UNCHANGED <<stepVars, cancel, interrupted, timedOut, images, toReap, unreaped>>

\* First Ctrl-C: the CLI's signal task cancels the token.
Interrupt ==
  /\ ~interrupted
  /\ phase # "returned"
  /\ interrupted' = TRUE
  /\ cancel' = TRUE
  /\ UNCHANGED <<stepVars, timedOut, images, toReap, unreaped, phase, verdict>>

Returned ==
  /\ phase = "returned"
  /\ UNCHANGED vars

StepNext(s) ==
  \/ ShortCircuit(s) \/ Admit(s) \/ Launch(s)
  \/ CacheHit(s) \/ Commit(s) \/ Succeed(s) \/ Fail(s)
  \/ CutShort(s) \/ StepTimeout(s) \/ Publish(s)

Next ==
  \/ \E s \in Steps : StepNext(s) \/ Reap(s)
  \/ Deadline \/ Drained \/ Conclude \/ Interrupt \/ Returned

\* Spawned tasks are polled and timers fire; a command need never exit, and
\* a container need never finish being destroyed.
Fairness ==
  /\ \A s \in Steps :
       /\ WF_vars(ShortCircuit(s)) /\ WF_vars(Admit(s)) /\ WF_vars(Launch(s))
       /\ WF_vars(CutShort(s)) /\ WF_vars(StepTimeout(s)) /\ WF_vars(Publish(s))
       /\ WF_vars(Reap(s))
  /\ WF_vars(Deadline) /\ WF_vars(Drained) /\ WF_vars(Conclude)

Spec == Init /\ [][Next]_vars
FairSpec == Spec /\ Fairness

-----------------------------------------------------------------------------
(* Properties.                                                             *)

TypeOK ==
  /\ pc \in [Steps -> {"waiting", "queued", "running", "committed", "ending", "done"}]
  /\ result \in [Steps -> Results \union {"none"}]
  /\ base \in [Steps -> Steps \union {NoImage}]
  /\ trace \in [Steps -> Seq({"StepQueued", "StepStart", "StepCacheHit", "StepEnd", "ChainFailed"})]
  /\ permits \in 0..Parallelism
  /\ cancel \in BOOLEAN /\ interrupted \in BOOLEAN /\ timedOut \in BOOLEAN
  /\ images \subseteq Steps
  /\ toReap \subseteq Steps \ Cached
  /\ unreaped \subseteq Steps
  /\ phase \in {"joining", "draining", "reaping", "returned"}
  /\ verdict \in {"none", "Passed", "Failed", "Canceled", "TimedOut"}

\* Every permit is in the semaphore or with exactly one live step, so a step
\* that fails, times out or is cut short never loses one for the build.
PermitsConserved == permits + Cardinality(PermitHolders) = Parallelism

\* Everything reachable from s: in each set that holds the children of s and
\* is closed under edges.
Descendants(s) ==
  {d \in Steps : \A C \in SUBSET Steps :
     (/\ \A e \in Edges : e[1] = s => e[2] \in C
      /\ \A e \in Edges : e[1] \in C => e[2] \in C) => d \in C}

\* A step that failed, timed out, was cut short or was skipped seals all its
\* descendants, however far: none of them is ever launched, even under -k and
\* although a skipped step itself reports exit code 0.
FailureSealsDescendants ==
  \A s \in Steps : result[s] \in FailedOrSkipped =>
    \A d \in Descendants(s) : d \notin Started

\* A launched step with a BuildsIn parent starts from that parent's image
\* (never from the default base image), and as long as it may still have to
\* restore it, the parent's ephemeral image has not been reaped.
LineageAlive ==
  \A s \in Started : Lineage(s) # {} =>
    /\ base[s] \in Lineage(s)
    /\ pc[s] = "running" /\ base[s] \notin Cached => base[s] \in images

\* The verdict Passed is only given when every step ran and passed: there is
\* no mix of skips, cancellations and exit code 0 that adds up to it.
PassedMeansAllPassed ==
  verdict = "Passed" => \A s \in Steps : result[s] = "ok"

\* Every other verdict has its cause: TimedOut the deadline, Canceled a Ctrl-C
\* or a ChainFailed the user has been shown, Failed a step that failed without
\* cancelling the build (any under -k, else only an error of the runner).
VerdictExplained ==
  /\ verdict = "TimedOut" <=> (timedOut /\ phase = "returned")
  /\ verdict = "Canceled" => \/ interrupted
                             \/ /\ ~KeepGoing
                                /\ \E s \in Started : trace[s][Len(trace[s])] = "ChainFailed"
  /\ verdict = "Failed" =>
       /\ \E s \in Started : result[s] \in NonZeroExit
       /\ KeepGoing \/ \A s \in Started : result[s] \in {"ok", "error", "unresolved"}

\* When the build returns, every step that was launched on a runner has one
\* StepStart and one StepEnd in its stream, in that order.
StreamsClosed ==
  phase = "returned" => \A s \in Started \ Unresolved :
    /\ trace[s][2] = "StepStart"
    /\ {i \in DOMAIN trace[s] : trace[s][i] = "StepEnd"} \in {{3}, {4}}

\* The ephemeral images left in the daemon when the build returns are those
\* whose removal failed, those of steps dropped after their commit and those
\* of commits that answered with an error: the image of a step that answered
\* is never forgotten, and a command that failed leaves none.
LeaksAccounted ==
  phase = "returned" =>
    \A s \in images \ Cached : s \in unreaped \/ result[s] \in {"cut", "timeout", "error"}

-----------------------------------------------------------------------------
(* The inductive invariant behind those properties, by parts.              *)

\* A step's result, stream and position agree.
Coherent(s) ==
  /\ pc[s] \in {"waiting", "queued"} => result[s] = "none" /\ trace[s] = <<>>
  /\ pc[s] \in {"running", "committed"} => result[s] = "none" /\ trace[s] # <<>>
  /\ pc[s] = "ending" => result[s] \in RunResults /\ trace[s] # <<>>
  /\ pc[s] = "done" => IF trace[s] = <<>> THEN result[s] \in {"skipped", "canceled"}
                       ELSE result[s] \in RunResults

\* What got past the gate has only successes before it, and starts from its
\* parent's image.
Gated(s) ==
  /\ pc[s] # "waiting" /\ result[s] \notin {"skipped", "canceled"}
       => \A p \in Preds(s) : Done(p) /\ result[p] = "ok"
  /\ s \in Started /\ Lineage(s) # {} => base[s] \in Lineage(s)

\* Until the build task reaps, the ephemeral image of every success is there;
\* afterwards it is there only if still to be reaped or not removable.
ImageKept(s) ==
  /\ phase \in {"joining", "draining"} /\ (pc[s] = "committed" \/ result[s] = "ok") => s \in images
  /\ s \in images => pc[s] = "committed" \/ result[s] \in {"ok", "cut", "timeout", "error"}
  /\ phase \in {"reaping", "returned"} /\ s \in images /\ result[s] = "ok" => s \in toReap \union unreaped

\* What was cut short or never launched has its reason.
SkipCause(s) ==
  /\ result[s] \in {"canceled", "cut"} => cancel
  /\ result[s] = "skipped" => cancel \/ \E t \in Steps : result[t] \in NonZeroExit

\* The token is cancelled by the user, the deadline or a reported failure.
Reported(s) == Done(s) /\ s \in Started /\ trace[s][Len(trace[s])] = "ChainFailed"
CancelCause ==
  /\ cancel => interrupted \/ timedOut \/ (~KeepGoing /\ \E s \in Steps : Reported(s))
  /\ timedOut => cancel
  /\ ~KeepGoing /\ ~cancel => \A s \in Steps : Done(s) => result[s] \notin ReportedByChain

\* The build task reaps and concludes only after the join.
PhaseOK ==
  /\ phase \in {"reaping", "returned"} => Joined
  /\ phase = "returned" => toReap = {} /\ verdict = Verdict
  /\ phase # "returned" => verdict = "none"

IndInv ==
  /\ TypeOK
  /\ PermitsConserved
  /\ \A s \in Steps : Coherent(s) /\ Gated(s) /\ SkipCause(s)
  /\ \A s \in Steps \ Cached : ImageKept(s)
  /\ CancelCause
  /\ PhaseOK

-----------------------------------------------------------------------------
\* The build the scheduler implements: a step is active from its launch to its
\* publication, and its outcome is what the published result stands for.
BuildState(s) ==
  IF Done(s)
  THEN IF result[s] = "ok" THEN "passed"
       ELSE IF result[s] \in NonZeroExit THEN "failed" ELSE "skipped"
  ELSE IF s \in Started THEN "active" ELSE "idle"

Build == INSTANCE DagBuild WITH
  st <- [s \in Steps |-> BuildState(s)],
  stop <- cancel,
  over <- phase = "returned"

\* The scheduler implements the abstract build: no step is started before all
\* its predecessors have published a success, or settled twice.
ImplementsBuild == Build!Spec

\* Once the token is cancelled the build returns, whatever the commands do.
CancelTerminates == cancel ~> phase = "returned"

\* A build with a deadline returns, whatever the commands do.
DeadlineTerminates == HasDeadline => <>(phase = "returned")

\* Both: whatever the commands do, a build that was cancelled or is past its
\* deadline returns.
BuildTerminates == CancelTerminates /\ DeadlineTerminates

\* If every command finishes, every build returns: no step starves for a
\* permit, and none waits for a predecessor that never publishes.
CommandsFinish == \A s \in Steps : WF_vars(Commit(s) \/ Fail(s)) /\ WF_vars(Succeed(s))
AllStepsFinish == <>(phase = "returned" /\ \A s \in Steps : Done(s))
FinishSpec == FairSpec /\ CommandsFinish

-----------------------------------------------------------------------------
(* What a document of the repository says, and the code does not do.        *)

\* skill_write_pipeline.md:72: "Exit code 130 = user cancelled (Ctrl-C)".
CanceledMeansInterrupted == verdict = "Canceled" => interrupted

=============================================================================
