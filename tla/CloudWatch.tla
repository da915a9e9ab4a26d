----------------------------- MODULE CloudWatch -----------------------------
(***************************************************************************)
(* Watching a build on Harmont Cloud: the poll loop and the log streams of *)
(* hm-core/src/exec/cloud/watch.rs, the task of CloudBackend::start that   *)
(* races them against Ctrl-C, the bounded event channel, and the renderer  *)
(* loop that drains it.                                                    *)
(*                                                                         *)
(* The server (job and build states, log tokens) is external; any request  *)
(* may fail.  Job states are classes: "pending" stands for pending,        *)
(* scheduled, assigned and not created yet, "running" for running,         *)
(* canceling and timing out, "failed" for failed, timed out and canceled.  *)
(* The lines of a log are counted; how chunks become lines is the subject  *)
(* of StepOutput.                                                           *)
(***************************************************************************)
EXTENDS Naturals, FiniteSets, Sequences

CONSTANTS
  Jobs,      \* the jobs of the build
  Listing,   \* the order in which the server lists them; it may repeat one
  Lines,     \* log lines each job writes
  Capacity,  \* of the event channel (1024 in the code)
  NoJob

ASSUME JobsAssumption == Listing \in Seq(Jobs) /\ NoJob \notin Jobs
ASSUME BoundsAssumption == Lines \in Nat /\ Capacity \in Nat \ {0}

VARIABLES
  build,      \* the build's state, as last asked
  watch,      \* where watch_build is
  seen,       \* the jobs' states, as last listed
  todo,       \* entries of that listing still to be looked at
  current,    \* the job being announced
  streaming,  \* jobs a log stream was started for
  ended,      \* jobs StepEnd was sent for
  token,      \* the log token: "fresh", or "old" (near its expiry or past it)
  stream,     \* each job's stream task
  aborting,   \* the streams' handles have been aborted, by their guard
  sent,       \* log lines sent of each job
  lost,       \* history: why lines of a job may be missing
  unlisted,   \* history: the listing after the drain failed
  stale,      \* history: a token could not be minted anew
  queue,      \* the event channel
  renderer,   \* the renderer's loop: "on", "done" or "dead"
  feed,       \* what the renderer was told of each job, in order
  codes,      \* exit codes of the BuildEnds shown
  cancel,     \* the build's cancellation token
  outcome     \* what Control::wait returns

pollVars == <<todo, seen, current, streaming, ended, token>>
streamVars == <<stream, aborting, sent>>
viewVars == <<renderer, feed, codes>>
historyVars == <<lost, unlisted, stale>>
vars == <<build, watch, pollVars, streamVars, historyVars, queue, viewVars,
          cancel, outcome>>

JobTerminal == {"passed", "failed", "skipped"}
BuildTerminal == {"passed", "failed", "canceled"}

\* Jobs whose logs exist: running or ended, but never skipped.
LogsAvailable == {"running", "passed", "failed"}

\* (mutant) takes a server-side cancel for a failure
ExitCodeFolded(s) == IF s = "passed" THEN 0 ELSE 1

ExitCode(s) == CASE s = "passed" -> 0 [] s = "canceled" -> 130 [] OTHER -> 1

StatusOf(code) == CASE code = 0 -> "passed" [] code = 130 -> "canceled" [] OTHER -> "failed"

\* StepEnd's exit code of a job that reports none of its own: also a job that
\* was canceled ends with 1 and not with 130.
EndCode(s) == IF s \in {"passed", "skipped"} THEN 0 ELSE 1

-----------------------------------------------------------------------------
Init ==
  /\ build = "running"
  /\ watch = "mint"
  /\ todo = <<>>
  /\ seen = [j \in Jobs |-> "pending"]
  /\ current = NoJob
  /\ streaming = {} /\ ended = {}
  /\ token = "fresh"
  /\ stream = [j \in Jobs |-> "none"]
  /\ aborting = FALSE
  /\ sent = [j \in Jobs |-> 0]
  /\ lost = [j \in Jobs |-> "no"]
  /\ unlisted = FALSE /\ stale = FALSE
  /\ queue = <<<<"accepted", NoJob>>>>
  /\ renderer = "on"
  /\ feed = [j \in Jobs |-> <<>>]
  /\ codes = <<>>
  /\ cancel = FALSE
  /\ outcome = "none"

-----------------------------------------------------------------------------
(* The server, at the moments hm asks it *)

\* The states a job may have reached since it was last seen.
Later == [pending |-> {"pending", "running"} \union JobTerminal,
          running |-> {"running", "passed", "failed"},
          passed |-> {"passed"}, failed |-> {"failed"},
          skipped |-> {"skipped"}]

\* A settled build has settled jobs, but for those still being canceled.
Settled(b) ==
  CASE b = "passed" -> {"passed", "skipped"}
    [] b = "failed" -> JobTerminal
    [] b = "canceled" -> JobTerminal \union {"running"}
    [] OTHER -> DOMAIN Later

Listings(b) == {js \in [Jobs -> Settled(b)] : \A j \in Jobs : js[j] \in Later[seen[j]]}

-----------------------------------------------------------------------------
(* Leaving watch_build: the guard of the streams aborts them. *)

Abort == aborting' = TRUE

Leave(result) ==
  /\ watch' = "gone"
  /\ outcome' = result
  /\ Abort

Open == renderer = "on"
Room == Len(queue) < Capacity

\* A send waits for room, and fails once the receiver is gone.
Send(event) == Open /\ Room /\ queue' = Append(queue, event)

\* A request of watch_build fails: the backend reports a log stream error.
RequestFails ==
  /\ watch \in {"mint", "list"} \/ (watch = "jobs" /\ todo = <<>>)
  /\ Leave("error")
  /\ UNCHANGED <<build, pollVars, stream, sent, historyVars, queue, viewVars, cancel>>

\* A job that was listed as ended is closed, once.
Closes(j) == seen[j] \in JobTerminal /\ j \notin ended

\* The receiver is gone: watch_build returns Ok(1).
NobodyListens ==
  /\ watch \in {"open", "queue", "start"} \/ (watch = "sweep" /\ todo # <<>> /\ Closes(Head(todo)))
  /\ ~Open
  /\ Leave(StatusOf(1))
  /\ UNCHANGED <<build, pollVars, stream, sent, historyVars, queue, viewVars, cancel>>

-----------------------------------------------------------------------------
(* The poll loop *)

Mint ==
  /\ watch = "mint"
  /\ token' = "fresh"
  /\ watch' = "open"
  /\ UNCHANGED <<build, todo, seen, current, streaming, ended, streamVars, historyVars,
                 queue, viewVars, cancel, outcome>>

BuildStart ==
  /\ watch = "open"
  /\ Send(<<"buildstart", NoJob>>)
  /\ watch' = "list"
  /\ UNCHANGED <<build, pollVars, streamVars, historyVars, viewVars, cancel, outcome>>

ListJobs ==
  /\ watch = "list"
  /\ seen' \in Listings(build)
  /\ todo' = Listing
  /\ watch' = "jobs"
  /\ UNCHANGED <<build, current, streaming, ended, token, streamVars, historyVars, queue,
                 viewVars, cancel, outcome>>

\* The next job of the listing: one with logs and no stream yet is announced.
Examine ==
  /\ watch = "jobs" /\ todo # <<>>
  /\ todo' = Tail(todo)
  /\ LET j == Head(todo)
     IN IF seen[j] \in LogsAvailable /\ j \notin streaming
        THEN /\ streaming' = streaming \union {j}
             /\ current' = j
             /\ watch' = "queue"
        ELSE UNCHANGED <<streaming, current, watch>>
  /\ UNCHANGED <<build, seen, ended, token, streamVars, historyVars, queue, viewVars,
                 cancel, outcome>>

StepQueued ==
  /\ watch = "queue"
  /\ Send(<<"queued", current>>)
  /\ watch' = "start"
  /\ UNCHANGED <<build, pollVars, streamVars, historyVars, viewVars, cancel, outcome>>

StepStart ==
  /\ watch = "start"
  /\ Send(<<"started", current>>)
  /\ watch' = "spawn"
  /\ UNCHANGED <<build, pollVars, streamVars, historyVars, viewVars, cancel, outcome>>

\* A token that has become old is minted anew; if that fails it is used.
Refresh(now) ==
  \/ now = "fresh" /\ UNCHANGED <<token, stale>>
  \/ now = "old" /\ token' = "fresh" /\ UNCHANGED stale
  \/ now = "old" /\ token' = "old" /\ stale' = TRUE

\* The connection of a stream: an old token may be turned away.
Connects(j) ==
  \/ /\ stream' = [stream EXCEPT ![j] = "open"]
     /\ UNCHANGED lost
  \/ /\ token' = "old"
     /\ stream' = [stream EXCEPT ![j] = "expired"]
     /\ lost' = [lost EXCEPT ![j] = "refused"]
  \/ /\ stream' = [stream EXCEPT ![j] = "finished"]
     /\ lost' = [lost EXCEPT ![j] = "broken"]

SpawnStream ==
  /\ watch = "spawn"
  /\ \E now \in {token, "old"} : Refresh(now)
  /\ Connects(current)
  /\ current' = NoJob
  /\ watch' = "jobs"
  /\ UNCHANGED <<build, todo, seen, streaming, ended, aborting, sent, unlisted, queue,
                 viewVars, cancel, outcome>>

\* The build's state, once every entry was looked at.  POLL passes before the
\* next listing.
GetBuild ==
  /\ watch = "jobs" /\ todo = <<>>
  /\ build' \in {"running"} \union BuildTerminal
  /\ Listings(build') # {}
  /\ watch' = IF build' \in BuildTerminal THEN "drain" ELSE "list"
  /\ UNCHANGED <<pollVars, streamVars, historyVars, queue, viewVars, cancel, outcome>>

-----------------------------------------------------------------------------
(* After the build: drain the streams, close the jobs, close the build *)

StreamGone(j) == stream[j] \in {"none", "finished"}

\* (mutant) does not wait for the streams
DrainNothing ==
  /\ watch = "drain"
  /\ watch' = "relist"
  /\ UNCHANGED <<build, pollVars, streamVars, historyVars, queue, viewVars, cancel, outcome>>

Drain ==
  /\ watch = "drain"
  /\ \A j \in Jobs : StreamGone(j)
  /\ watch' = "relist"
  /\ UNCHANGED <<build, pollVars, streamVars, historyVars, queue, viewVars, cancel, outcome>>

\* The jobs once more; a failure is ignored and closes nobody.
Relist ==
  /\ watch = "relist"
  /\ \/ /\ seen' \in Listings(build)
        /\ todo' = Listing
        /\ UNCHANGED unlisted
     \/ /\ unlisted' = TRUE
        /\ UNCHANGED <<seen, todo>>
  /\ watch' = "sweep"
  /\ UNCHANGED <<build, current, streaming, ended, token, streamVars, lost, stale, queue,
                 viewVars, cancel, outcome>>

\* (mutant) forgets which jobs it has closed
SweepBlindly ==
  /\ watch = "sweep" /\ todo # <<>>
  /\ todo' = Tail(todo)
  /\ LET j == Head(todo)
     IN IF seen[j] \notin JobTerminal
        THEN UNCHANGED <<ended, queue>>
        ELSE Send(<<"ended", j, EndCode(seen[j])>>) /\ ended' = ended \union {j}
  /\ UNCHANGED <<build, watch, seen, current, streaming, token, streamVars, historyVars,
                 viewVars, cancel, outcome>>

\* StepEnd for the next job of the listing that has none yet.
Sweep ==
  /\ watch = "sweep" /\ todo # <<>>
  /\ todo' = Tail(todo)
  /\ LET j == Head(todo)
     IN IF ~Closes(j)
        THEN UNCHANGED <<ended, queue>>
        ELSE Send(<<"ended", j, EndCode(seen[j])>>) /\ ended' = ended \union {j}
  /\ UNCHANGED <<build, watch, seen, current, streaming, token, streamVars, historyVars,
                 viewVars, cancel, outcome>>

\* BuildEnd, best effort, and the exit code: one poll of the task, so that no
\* cancellation comes in between.
BuildEnd ==
  /\ watch = "sweep" /\ todo = <<>>
  /\ \/ Send(<<"over", NoJob, ExitCode(build)>>)
     \/ ~Open /\ UNCHANGED queue
  /\ watch' = "gone"
  /\ outcome' = StatusOf(ExitCode(build))
  /\ UNCHANGED <<build, pollVars, streamVars, historyVars, viewVars, cancel>>

-----------------------------------------------------------------------------
(* The log streams, one task per announced job *)

StreamLine(j) ==
  /\ stream[j] = "open"
  /\ sent[j] < Lines
  /\ Send(<<"log", j>>)
  /\ sent' = [sent EXCEPT ![j] = @ + 1]
  /\ UNCHANGED <<build, watch, pollVars, stream, aborting, historyVars, viewVars,
                 cancel, outcome>>

\* The one line that says why the log of a job stops.
Notice(j) ==
  /\ stream[j] = "expired"
  /\ Send(<<"log", j>>)
  /\ stream' = [stream EXCEPT ![j] = "finished"]
  /\ UNCHANGED <<build, watch, pollVars, aborting, sent, historyVars, viewVars, cancel,
                 outcome>>

\* The token runs out while the stream is open, however fresh it was when the
\* stream connected: the server ends the log, and the notice comes next.
StreamExpires(j) ==
  /\ stream[j] = "open"
  /\ stream' = [stream EXCEPT ![j] = "expired"]
  /\ lost' = [lost EXCEPT ![j] = "expired"]
  /\ UNCHANGED <<build, watch, pollVars, aborting, sent, unlisted, stale, queue,
                 viewVars, cancel, outcome>>

StreamStops(j, why) ==
  /\ stream' = [stream EXCEPT ![j] = "finished"]
  /\ lost' = [lost EXCEPT ![j] = why]
  /\ UNCHANGED <<build, watch, pollVars, aborting, sent, unlisted, stale, queue,
                 viewVars, cancel, outcome>>

\* The server has sent all of the log.
StreamDone(j) ==
  /\ stream[j] = "open"
  /\ sent[j] = Lines
  /\ StreamStops(j, "no")

\* An error, or the connection ends early: the rest of the log is gone.
StreamBreaks(j) == stream[j] = "open" /\ StreamStops(j, "broken")

StreamUnheard(j) == stream[j] \in {"open", "expired"} /\ ~Open /\ StreamStops(j, "broken")

\* An aborted task ends at its next await.
StreamAborted(j) == aborting /\ ~StreamGone(j) /\ StreamStops(j, "broken")

-----------------------------------------------------------------------------
(* The backend's task: the cancellation token against watch_build *)

CtrlC ==
  /\ ~cancel /\ outcome = "none"
  /\ cancel' = TRUE
  /\ UNCHANGED <<build, watch, pollVars, streamVars, historyVars, queue, viewVars, outcome>>

\* The select's other branch is dropped before this one's handler runs, and the
\* streams' guard with it.  The drain has taken the handles out of the guard:
\* dropped there, they leave their streams running, each with its sender.
Cancelled ==
  /\ cancel
  /\ watch \notin {"gone", "canceling"}
  /\ watch' = "canceling"
  /\ aborting' = (aborting \/ watch # "drain")
  /\ UNCHANGED <<build, pollVars, stream, sent, historyVars, queue, viewVars, cancel,
                 outcome>>

\* Best effort: the request may fail, or find the build settled; hm looks no
\* more.
CancelBuild ==
  /\ watch = "canceling"
  /\ watch' = "gone"
  /\ outcome' = "canceled"
  /\ UNCHANGED <<build, pollVars, streamVars, historyVars, queue, viewVars, cancel>>

-----------------------------------------------------------------------------
(* The renderer: drive_stream over the receiver *)

\* What an event shows; the channel is dropped after BuildEnd.
Receive ==
  /\ Open
  /\ queue # <<>>
  /\ LET event == Head(queue)
         kind == event[1]
     IN /\ feed' = IF event[2] = NoJob THEN feed
                   ELSE [feed EXCEPT ![event[2]] = Append(@, kind)]
        /\ codes' = IF kind = "over" THEN Append(codes, event[3]) ELSE codes
        /\ renderer' = IF kind = "over" THEN "done" ELSE "on"
        /\ queue' = IF kind = "over" THEN <<>> ELSE Tail(queue)
  /\ UNCHANGED <<build, watch, pollVars, streamVars, historyVars, cancel, outcome>>

\* (mutant) the backend keeps a sender of its own
SendersKept == TRUE

Senders == watch \notin {"gone", "canceling"} \/ \E j \in Jobs : ~StreamGone(j)

\* Every sender is gone and the channel is empty.
FeedCloses ==
  /\ Open
  /\ queue = <<>> /\ ~Senders
  /\ renderer' = "done"
  /\ UNCHANGED <<build, watch, pollVars, streamVars, historyVars, queue, feed, codes,
                 cancel, outcome>>

\* The renderer's task panics: the receiver is dropped with what it holds.
RendererDies ==
  /\ Open
  /\ renderer' = "dead"
  /\ queue' = <<>>
  /\ UNCHANGED <<build, watch, pollVars, streamVars, historyVars, feed, codes,
                 cancel, outcome>>

-----------------------------------------------------------------------------
Watcher ==
  \/ RequestFails \/ NobodyListens \/ Mint \/ BuildStart \/ ListJobs
  \/ Examine \/ Sweep
  \/ StepQueued \/ StepStart \/ SpawnStream \/ GetBuild
  \/ Drain \/ Relist \/ BuildEnd

Streams ==
  \E j \in Jobs : StreamLine(j) \/ Notice(j) \/ StreamDone(j) \/ StreamExpires(j)
                  \/ StreamBreaks(j) \/ StreamUnheard(j) \/ StreamAborted(j)

Backend == CtrlC \/ Cancelled \/ CancelBuild

Renderer == Receive \/ FeedCloses \/ RendererDies

Next == Watcher \/ Streams \/ Backend \/ Renderer

Spec == Init /\ [][Next]_vars

\* Requests of the client return, the executor polls what is woken, an aborted
\* task is dropped.  Nothing is assumed of the server's builds, of the log
\* streams it holds open, or of the user.
Fairness ==
  /\ WF_vars(Watcher)
  /\ WF_vars(Cancelled \/ CancelBuild)
  /\ WF_vars(Receive \/ FeedCloses)
  /\ WF_vars(\E j \in Jobs : StreamAborted(j))

FairSpec == Spec /\ Fairness

-----------------------------------------------------------------------------
(* Properties *)

\* Types, and the bound of the channel.
TypeOK ==
  /\ build \in {"running"} \union BuildTerminal
  /\ watch \in {"mint", "open", "list", "jobs", "queue", "start", "spawn", "drain",
                "relist", "sweep", "canceling", "gone"}
  /\ todo \in Seq(Jobs)
  /\ seen \in [Jobs -> DOMAIN Later]
  /\ current \in Jobs \union {NoJob}
  /\ streaming \subseteq Jobs /\ ended \subseteq Jobs
  /\ token \in {"fresh", "old"}
  /\ stream \in [Jobs -> {"none", "open", "expired", "finished"}]
  /\ sent \in [Jobs -> 0..Lines]
  /\ Len(queue) <= Capacity
  /\ renderer \in {"on", "done", "dead"}
  /\ \A j \in Jobs : feed[j] \in Seq({"queued", "started", "log", "ended"})
  /\ codes \in {<<>>, <<0>>, <<1>>, <<130>>}
  /\ outcome \in {"none", "passed", "failed", "canceled", "error"}

\* What the renderer shows is a well-formed feed: it takes the poll loop, the
\* streams, the drain and the sweep together to keep a job's lines between its
\* start and its end, and to close it once when a listing repeats it
\* (watch.rs:231).
Feed == INSTANCE BuildFeed WITH over <- codes # <<>>
FeedsRenderer == Feed!Spec

Shown(j, kind) == kind \in {feed[j][i] : i \in DOMAIN feed[j]}
LinesShown(j) == Cardinality({i \in DOMAIN feed[j] : feed[j][i] = "log"})

\* When the build is shown as over, every announced job has been closed, unless
\* the last listing failed or the job of a canceled build had not stopped yet
\* (watch.rs:251).
AnnouncedAreClosed ==
  codes # <<>> /\ ~unlisted =>
    \A j \in Jobs : Shown(j, "queued") =>
      Shown(j, "ended") \/ (build = "canceled" /\ seen[j] = "running")

\* By then all of an announced job's log was shown, or its stream broke or
\* was refused (watch.rs:247).
LogsAreComplete ==
  codes # <<>> =>
    \A j \in Jobs : Shown(j, "queued") /\ lost[j] = "no" => LinesShown(j) = Lines

\* A log that stops for want of a valid token, at its start or in the middle,
\* says so: one line more was shown of it than the job sent (watch.rs:373).
ExpiryIsTold ==
  codes # <<>> =>
    \A j \in Jobs : lost[j] \in {"refused", "expired"} => LinesShown(j) = sent[j] + 1

\* No stream is turned away at its start unless a token could not be minted
\* anew: a build may outlast any number of tokens (watch.rs:211).
RefusalHasCause == (\E j \in Jobs : lost[j] = "refused") => stale

\* What the renderer has been shown once the watcher returns is the whole
\* build: every announced job is closed, no line of a job is missing without
\* a broken stream or a notice, and only a token that could not be renewed is
\* refused.
FeedIsComplete ==
  TypeOK /\ AnnouncedAreClosed /\ LogsAreComplete /\ ExpiryIsTold /\ RefusalHasCause

\* The exit code is the server's verdict: the build passes only if it passed,
\* is canceled only if it was or the user asked for it, and BuildEnd, if it
\* was shown, said the same (watch.rs:104).
VerdictIsServers ==
  /\ outcome = "passed" => build = "passed"
  /\ outcome = "canceled" => cancel \/ build = "canceled"
  /\ outcome = "failed" => build = "failed" \/ renderer = "dead"
  /\ codes # <<>> => outcome = StatusOf(codes[1])

\* Ctrl-C ends the watch, whatever the server and its log streams do.  The
\* renderer, which hm run joins, sees its feed end as soon as the streams are
\* aborted; those that the interrupted drain has let go, and with them hm run,
\* are at the server's mercy (watch.rs:247).
InterruptEndsRun ==
  /\ cancel ~> outcome # "none"
  /\ (cancel /\ aborting) ~> ~Open

\* When the server has settled the build and the log streams have ended, the
\* watcher returns and the renderer stops: the drain waits for nothing else,
\* and neither does hm run after a drain that was interrupted.
SettledBuildReturns ==
  build \in BuildTerminal /\ (\A j \in Jobs : StreamGone(j)) ~> (outcome # "none" /\ ~Open)

\* hm run always comes back: from a watch interrupted before the drain whatever
\* the server does, from a settled build once the server closes the streams.
RunEnds == InterruptEndsRun /\ SettledBuildReturns

=============================================================================
