----------------------------- MODULE LocalFeed ------------------------------
(***************************************************************************)
(* From the steps of a local build to the screen: the broadcast bus of     *)
(* exec/local/events.rs, a ring that forgets what a slow reader has not    *)
(* taken; the forwarder and the teardown of scheduler.rs; the bounded      *)
(* channel of the backend handle; the loop of drive_stream; and the books  *)
(* the progress and the human renderer keep.                               *)
(*                                                                         *)
(* An event travels as its number in `emitted`.  The steps emit in the     *)
(* order that Scheduler's StreamsClosed and BuildFeed promise; why a step  *)
(* runs, fails or is skipped is the subject of Scheduler.                  *)
(***************************************************************************)
EXTENDS Naturals, FiniteSets, SequencesExt

CONSTANTS
  Steps,     \* the steps of the pipeline
  Cacheable, \* those that may hit the cache
  Lines,     \* how many log lines each step writes
  Ring,      \* capacity of the bus (BUS_CAPACITY, 1024)
  Capacity,  \* of the channel (1024)
  NoStep

ASSUME StepsAssumption == Cacheable \subseteq Steps /\ NoStep \notin Steps
ASSUME BoundsAssumption == Lines \in [Steps -> Nat] /\ Ring \in Nat \ {0} /\ Capacity \in Nat \ {0}

VARIABLES
  emitted,  \* everything emitted into the bus
  stage,    \* the build's task: "setup", "running", "draining", "returned"
  failed,   \* it returned an error before the first step
  cursor,   \* the next event the forwarder will read
  holding,  \* the event it is sending, 0 if none
  fwd,      \* the forwarder's loop: "on" or "done"
  lagged,   \* history: events were overwritten before they were read
  queue,    \* the channel
  got,      \* the events the renderer was given, in order
  renderer  \* its loop: "on", "done", "dead" (panicked) or "stuck" (blocked writing)

buildVars == <<emitted, stage, failed>>
fwdVars == <<cursor, holding, fwd, lagged>>
vars == <<buildVars, fwdVars, queue, got, renderer>>

Event(kind, s, code) == [kind |-> kind, step |-> s, code |-> code]

\* What was emitted for a step so far.
Emitted(s, kind) == \E i \in DOMAIN emitted : emitted[i].step = s /\ emitted[i].kind = kind
LinesOf(s) == Cardinality({i \in DOMAIN emitted : emitted[i].step = s /\ emitted[i].kind = "log"})

-----------------------------------------------------------------------------
Init ==
  /\ emitted = <<>>
  /\ stage = "setup"
  /\ failed = FALSE
  /\ cursor = 1 /\ holding = 0 /\ fwd = "on" /\ lagged = FALSE
  /\ queue = <<>>
  /\ got = <<>>
  /\ renderer = "on"

Emit(es) == emitted' = emitted \o es

\* The source archive cannot be built: the task returns an error, its senders
\* are dropped, the forwarder is left to itself.
SetupFails ==
  /\ stage = "setup"
  /\ stage' = "returned" /\ failed' = TRUE
  /\ UNCHANGED <<emitted, fwdVars, queue, got, renderer>>

BuildStarts ==
  /\ stage = "setup"
  /\ stage' = "running"
  /\ Emit(<<Event("buildstart", NoStep, 0)>>)
  /\ UNCHANGED <<failed, fwdVars, queue, got, renderer>>

\* StepQueued and StepStart come together, with no await in between.  (Events of
\* other threads between the two change nothing that is kept per step.)
Announced(s) == <<Event("queued", s, 0), Event("started", s, 0)>>

Begun(s) == \E e \in ToSet(emitted) : e.step = s

\* After a cache hit only the step's end comes, and after that nothing.
Follows(s, kind, code) ==
  /\ ~Emitted(s, "ended")
  /\ \/ kind = "cachehit" /\ code = 0 /\ s \in Cacheable /\ ~Emitted(s, "cachehit") /\ ~Emitted(s, "log")
     \/ kind = "log" /\ code = 0 /\ ~Emitted(s, "cachehit") /\ LinesOf(s) < Lines[s]
     \/ kind = "ended" /\ (Emitted(s, "cachehit") => code = 0)

\* What a step may emit next.  A command that fails, 130 when it was cut short or
\* exits so by itself, also ends its chain; a runner's error only the step.  1
\* stands for every other exit code.
NextEvents(s) ==
  IF ~Begun(s) THEN {Announced(s)}
  ELSE {<<Event(x[1], s, x[2])>> :
          x \in {x \in {"cachehit", "log", "ended"} \X {0, 1} : Follows(s, x[1], x[2])}}
       \cup {<<Event("ended", s, code), Event("chainfailed", s, code)>> :
               code \in {c \in {1, 130} : Follows(s, "ended", c)}}

StepEmits(s) ==
  /\ stage = "running"
  /\ \E es \in NextEvents(s) : Emit(es)
  /\ UNCHANGED <<stage, failed, fwdVars, queue, got, renderer>>

Ended0(s) == Event("ended", s, 0) \in ToSet(emitted)

\* The verdicts that the steps leave open: timed out (124) and canceled (130) look
\* at the deadline and the token alone, and may come over steps that all passed.
Verdicts ==
  {124, 130} \cup {code \in {0, 1} : IF code = 0 THEN \A s \in Steps : Ended0(s)
                                    ELSE \E s \in Steps : Begun(s) /\ ~Ended0(s)}

\* All steps are over or were never started; one whose runner is unknown was
\* started and has no end.
BuildEnds ==
  /\ stage = "running"
  /\ \A s \in Steps : Emitted(s, "cachehit") \/ Emitted(s, "log") => Emitted(s, "ended")
  /\ \E code \in Verdicts : Emit(<<Event("buildend", NoStep, code)>>)
  /\ stage' = "draining"
  /\ UNCHANGED <<failed, fwdVars, queue, got, renderer>>

\* (mutant) waits for the forwarder without a limit
TearDownWaits ==
  /\ stage = "draining" /\ fwd = "done"
  /\ stage' = "returned"
  /\ UNCHANGED <<emitted, failed, fwdVars, queue, got, renderer>>

\* The forwarder is done, or two seconds have passed: it is left to itself.
TearDown ==
  /\ stage = "draining"
  /\ stage' = "returned"
  /\ UNCHANGED <<emitted, failed, fwdVars, queue, got, renderer>>

-----------------------------------------------------------------------------
(* The forwarder *)

Oldest == IF Len(emitted) > Ring THEN Len(emitted) - Ring + 1 ELSE 1

\* (mutant) reads without moving on
TakeAgain ==
  /\ fwd = "on" /\ holding = 0
  /\ cursor >= Oldest /\ cursor <= Len(emitted)
  /\ holding' = cursor
  /\ UNCHANGED <<buildVars, cursor, fwd, lagged, queue, got, renderer>>

Take ==
  /\ fwd = "on" /\ holding = 0
  /\ cursor >= Oldest /\ cursor <= Len(emitted)
  /\ holding' = cursor
  /\ cursor' = cursor + 1
  /\ UNCHANGED <<buildVars, fwd, lagged, queue, got, renderer>>

\* (mutant) stops forwarding when events were lost
LagStops ==
  /\ fwd = "on" /\ holding = 0
  /\ cursor < Oldest
  /\ fwd' = "done"
  /\ lagged' = TRUE
  /\ UNCHANGED <<buildVars, cursor, holding, queue, got, renderer>>

\* The ring has overwritten what comes next: skip the gap.
Lag ==
  /\ fwd = "on" /\ holding = 0
  /\ cursor < Oldest
  /\ cursor' = Oldest
  /\ lagged' = TRUE
  /\ UNCHANGED <<buildVars, holding, fwd, queue, got, renderer>>

Receiving == renderer \in {"on", "stuck"}

\* The send waits for room: from here on the ring fills behind the renderer.
Forward ==
  /\ holding # 0 /\ Receiving
  /\ Len(queue) < Capacity
  /\ queue' = Append(queue, holding)
  /\ holding' = 0
  /\ UNCHANGED <<buildVars, cursor, fwd, lagged, got, renderer>>

\* The renderer is gone, or every sender of the bus is and it is empty.
ForwardEnds ==
  /\ fwd = "on"
  /\ \/ holding # 0 /\ ~Receiving
     \/ holding = 0 /\ cursor > Len(emitted) /\ stage \in {"draining", "returned"}
  /\ fwd' = "done"
  /\ UNCHANGED <<buildVars, cursor, holding, lagged, queue, got, renderer>>

-----------------------------------------------------------------------------
(* The renderer's loop *)

IsBuildEnd(e) == e.kind = "buildend"

Receive ==
  /\ renderer = "on" /\ queue # <<>>
  /\ got' = Append(got, Head(queue))
  /\ IF IsBuildEnd(emitted[Head(queue)])
     THEN renderer' = "done" /\ queue' = <<>>
     ELSE queue' = Tail(queue) /\ UNCHANGED renderer
  /\ UNCHANGED <<buildVars, fwdVars>>

\* run() holds one, and the forwarder its clone.
Senders == stage # "returned" \/ fwd = "on"

FeedCloses ==
  /\ renderer = "on" /\ queue = <<>>
  /\ ~Senders
  /\ renderer' = "done"
  /\ UNCHANGED <<buildVars, fwdVars, queue, got>>

\* The task panics over an event, or blocks on a terminal that takes no more
\* output.
RendererFails ==
  /\ renderer = "on" /\ queue # <<>>
  /\ \/ renderer' = "dead" /\ queue' = <<>>
     \/ renderer' = "stuck" /\ queue' = Tail(queue)
  /\ UNCHANGED <<buildVars, fwdVars, got>>

-----------------------------------------------------------------------------
Build == SetupFails \/ BuildStarts \/ (\E s \in Steps : StepEmits(s)) \/ BuildEnds \/ TearDown

Forwarder == Take \/ Lag \/ Forward \/ ForwardEnds

Renderer == Receive \/ FeedCloses \/ RendererFails

Next == Build \/ Forwarder \/ Renderer

Spec == Init /\ [][Next]_vars

\* The executor polls the forwarder, the renderer and the two-second timer.
\* The steps owe nothing.
FairSpec ==
  Spec /\ WF_vars(Forwarder) /\ WF_vars(Receive \/ FeedCloses) /\ WF_vars(TearDown)

-----------------------------------------------------------------------------
(* The books of ProgressRenderer, as a function of the events it was given *)

Blank == [pos |-> 0, order |-> <<>>, outcome |-> [s \in Steps |-> "none"], failed |-> <<>>,
          buffer |-> [s \in Steps |-> 0], report |-> <<>>, banner |-> "none"]

\* (mutant) lists a step again when it is started
OrderedTwice(v, e) ==
  IF e.kind \in {"queued", "started"} THEN [v EXCEPT !.order = Append(@, e.step)] ELSE v

Ordered(v, e) == IF e.kind = "queued" THEN [v EXCEPT !.order = Append(@, e.step)] ELSE v

\* The bar moves at a cache hit and again at the end of the same step.
Advanced(v, e) == IF e.kind \in {"cachehit", "ended"} THEN [v EXCEPT !.pos = @ + 1] ELSE v

Buffered(v, e) == IF e.kind = "log" THEN [v EXCEPT !.buffer[e.step] = @ + 1] ELSE v

Outcome(code) ==
  CASE code = 0 -> "succeeded" [] code = 130 -> "cancelled" [] OTHER -> "failed"

\* The end of a step that hit the cache replaces "cached" by "succeeded".
Marked(v, e) ==
  CASE e.kind = "cachehit" -> [v EXCEPT !.outcome[e.step] = "cached"]
    [] e.kind = "ended" -> [v EXCEPT !.outcome[e.step] = Outcome(e.code)]
    [] OTHER -> v

Collected(v, e) ==
  IF e.kind = "ended" /\ Outcome(e.code) = "failed"
  THEN [v EXCEPT !.failed = Append(@, e.step)] ELSE v

\* The summary is printed of every build, the logs of the failed steps only of
\* one that did not pass; a canceled build is announced as failed.
Closed(v, e) ==
  IF ~IsBuildEnd(e) THEN v
  ELSE [v EXCEPT !.banner = IF e.code = 0 THEN "succeeded" ELSE "failed",
                 !.report = IF e.code = 0 THEN <<>>
                            ELSE [i \in DOMAIN v.failed |-> <<v.failed[i], v.buffer[v.failed[i]]>>]]

OnEvent(e, v) ==
  Closed(Collected(Marked(Buffered(Advanced(Ordered(v, e), e), e), e), e), e)

Given == [i \in DOMAIN got |-> emitted[got[i]]]
Books[n \in 0..Len(got)] == IF n = 0 THEN Blank ELSE OnEvent(Given[n], Books[n - 1])
Progress == Books[Len(got)]

\* HumanRenderer: the name each line is prefixed with, "?" of a step whose
\* StepQueued it was not given.
Prefix(i) ==
  IF \E k \in 1..(i - 1) : Given[k].kind = "queued" /\ Given[k].step = Given[i].step
  THEN Given[i].step ELSE "?"

-----------------------------------------------------------------------------
(* Properties *)

Ends == {e \in ToSet(emitted) : e.kind = "ended"}

\* Types, and the bound of the channel.
TypeOK ==
  /\ stage \in {"setup", "running", "draining", "returned"}
  /\ failed \in BOOLEAN /\ lagged \in BOOLEAN
  /\ cursor \in 1..(Len(emitted) + 1)
  /\ holding \in 0..Len(emitted)
  /\ fwd \in {"on", "done"}
  /\ queue \in Seq(1..Len(emitted)) /\ Len(queue) <= Capacity
  /\ got \in Seq(1..Len(emitted))
  /\ renderer \in {"on", "done", "dead", "stuck"}

\* Bus, forwarder and channel together are a lossy FIFO: nothing is shown
\* twice, out of order or before it was emitted (scheduler.rs:114).
Fifo == INSTANCE LossyFifo WITH put <- Len(emitted)
FeedIsFifo == Fifo!Spec

\* What is lost was overwritten in the ring: a renderer that keeps up is given
\* everything (scheduler.rs:123).
LossNeedsLag ==
  renderer = "done" /\ ~failed /\ ~lagged => Len(got) = Len(emitted)

\* However much was lost, the renderer's loop ends with BuildEnd: the ring
\* keeps the newest events, and the teardown drops no forwarder
\* (scheduler.rs:345).
EndIsShown ==
  renderer = "done" /\ ~failed => got # <<>> /\ IsBuildEnd(emitted[got[Len(got)]])

\* The summary is true: every step that ran is listed once and marked as it
\* ended; the logs of exactly the failed steps are replayed, of cancelled ones
\* never; the banner says "succeeded" only when all ended with 0, and "failed"
\* over such steps only for a build that was canceled or timed out
\* (progress.rs:294).
SummaryIsTrue ==
  renderer = "done" /\ ~failed /\ ~lagged =>
    /\ IsInjective(Progress.order)
    /\ ToSet(Progress.order) = {s \in Steps : Emitted(s, "queued")}
    /\ \A e \in Ends : Progress.outcome[e.step] = Outcome(e.code)
    /\ ToSet(Progress.report) = {<<e.step, LinesOf(e.step)>> : e \in {x \in Ends : x.code \notin {0, 130}}}
    /\ Progress.banner = "succeeded" => \A s \in Steps : Ended0(s)
    /\ (\A s \in Steps : Ended0(s)) =>
          Progress.banner = "succeeded" \/ emitted[Len(emitted)].code \in {124, 130}

\* A line loses its step's name only to a lag (the failure of a chain names the
\* step itself).
NamedUnlessLagged ==
  ~lagged => \A i \in DOMAIN got :
               Given[i].kind \notin {"buildstart", "queued", "chainfailed", "buildend"}
                => Prefix(i) = Given[i].step

\* Only lag loses events: without it the renderer takes all of them and names
\* every line's step; with it, it still ends by the build's own end.
OnlyLagLoses == TypeOK /\ LossNeedsLag /\ EndIsShown /\ NamedUnlessLagged

\* The build's task returns, also when nobody reads what it emits.
TeardownEnds == stage = "draining" ~> stage = "returned"

\* The renderer, which hm run joins, comes to its end when the build has: by
\* BuildEnd, or because the last sender goes.
RendererEnds == stage \in {"draining", "returned"} ~> renderer # "on"

\* Neither side of the channel keeps hm run waiting: the build's task returns
\* though the renderer hangs, and the renderer ends though the channel's last
\* event never comes.
FeedEnds == TeardownEnds /\ RendererEnds

=============================================================================
