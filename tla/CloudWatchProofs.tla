-------------------------- MODULE CloudWatchProofs --------------------------
(***************************************************************************)
(* Proofs about watching a build on Harmont Cloud, for any jobs, listings, *)
(* logs and capacity, whatever the server answers and whoever dies: the    *)
(* verdict is the server's, and the renderer is told a well-formed feed    *)
(* that is complete.                                                       *)
(***************************************************************************)
EXTENDS CloudWatch, SequenceTheorems, FiniteSetTheorems, FunctionTheorems, TLAPS

Kinds == {"queued", "started", "log", "ended"}
Quiet == {"accepted", "buildstart", "over"}
Codes == {0, 1, 130}

Msgs ==
  {<<k, j>> : k \in Kinds \cup Quiet, j \in Jobs \cup {NoJob}}
    \cup {<<k, j, c>> : k \in Kinds \cup Quiet, j \in Jobs \cup {NoJob}, c \in Codes}

Kind(i) == queue[i][1]
About(i) == queue[i][2]

Watching == watch \notin {"gone", "canceling"}

Shape ==
  /\ build \in {"running"} \cup BuildTerminal
  /\ watch \in {"mint", "open", "list", "jobs", "queue", "start", "spawn", "drain",
                "relist", "sweep", "canceling", "gone"}
  /\ todo \in Seq(Jobs)
  /\ current \in Jobs \cup {NoJob}
  /\ streaming \subseteq Jobs /\ ended \subseteq Jobs
  /\ stream \in [Jobs -> {"none", "open", "expired", "finished"}]
  /\ queue \in Seq(Msgs)
  /\ renderer \in {"on", "done", "dead"}
  /\ feed \in [Jobs -> Seq(Kinds)]
  /\ codes \in Seq(Codes)
  /\ cancel \in BOOLEAN
  /\ outcome \in {"none", "passed", "failed", "canceled", "error"}

\* Where the watcher and the streams are.
PlaceOK ==
  /\ watch \in {"queue", "start", "spawn"} =>
       current \in streaming /\ current \in Jobs /\ stream[current] = "none"
  /\ watch \notin {"sweep", "gone", "canceling"} => ended = {}
  /\ watch \in {"relist", "sweep"} \/ ended # {} => \A j \in Jobs : StreamGone(j)
  /\ \A j \in Jobs : j \notin streaming => stream[j] = "none"

\* The outcome, and what the end of the build says.
VerdictOK ==
  /\ watch \in {"drain", "relist", "sweep"} => build \in BuildTerminal
  /\ outcome # "none" <=> watch = "gone"
  /\ watch = "canceling" => cancel
  /\ outcome = "passed" => build = "passed"
  /\ outcome = "canceled" => cancel \/ build = "canceled"
  /\ outcome = "failed" => build = "failed" \/ renderer = "dead"
  /\ renderer = "done" => ~Watching
  /\ renderer = "on" => codes = <<>>
  /\ codes # <<>> => outcome # "none" /\ outcome = StatusOf(codes[1])
  /\ \A i \in 1..Len(queue) : Kind(i) = "over" =>
       /\ watch = "gone" /\ \A j \in Jobs : StreamGone(j)
       /\ outcome = StatusOf(queue[i][3]) /\ queue[i][3] \in Codes

\* Only events about a job name one.
AboutOK ==
  \A i \in 1..Len(queue) : IF Kind(i) \in Kinds THEN About(i) \in Jobs ELSE About(i) = NoJob

VInv == Shape /\ PlaceOK /\ VerdictOK /\ AboutOK

-----------------------------------------------------------------------------
(* Sequences                                                                *)

LEMMA TailIs ==
  ASSUME NEW S, NEW q \in Seq(S), q # <<>>
  PROVE  /\ Head(q) = q[1] /\ 1 \in 1..Len(q) /\ Len(q) \in Nat
         /\ Tail(q) \in Seq(S) /\ Len(Tail(q)) = Len(q) - 1
         /\ \A i \in 1..Len(Tail(q)) : Tail(q)[i] = q[i + 1] /\ i + 1 \in 1..Len(q)
<1>1. Len(q) \in Nat \ {0}
  BY EmptySeq
<1>2. QED
  BY <1>1, HeadTailProperties

LEMMA AppendIs ==
  ASSUME NEW S, NEW q \in Seq(S), NEW e \in S
  PROVE  /\ Append(q, e) \in Seq(S) /\ Len(Append(q, e)) = Len(q) + 1 /\ Len(q) \in Nat
         /\ Append(q, e)[Len(q) + 1] = e /\ Append(q, e) # <<>>
         /\ \A i \in 1..Len(q) : Append(q, e)[i] = q[i]
         /\ \A i \in 1..(Len(q) + 1) : i \in 1..Len(q) \/ i = Len(q) + 1
<1>1. Len(q) \in Nat
  OBVIOUS
<1>2. QED
  BY <1>1, AppendProperties

\* A message, and what it says.
LEMMA MsgIs ==
  ASSUME NEW k \in Kinds \cup Quiet, NEW j \in Jobs \cup {NoJob}
  PROVE  /\ <<k, j>> \in Msgs /\ <<k, j>>[1] = k /\ <<k, j>>[2] = j
         /\ \A c \in Codes : /\ <<k, j, c>> \in Msgs /\ <<k, j, c>>[1] = k /\ <<k, j, c>>[2] = j
                             /\ <<k, j, c>>[3] = c
BY DEF Msgs

\* What sending it does to the queue.
LEMMA Sent ==
  ASSUME Shape, NEW m \in Msgs, Send(m)
  PROVE  /\ renderer = "on" /\ queue' \in Seq(Msgs) /\ Len(queue') = Len(queue) + 1
         /\ Len(queue) \in Nat /\ queue'[Len(queue) + 1] = m
         /\ \A i \in 1..Len(queue) : queue'[i] = queue[i]
         /\ \A i \in 1..Len(queue') : i \in 1..Len(queue) \/ i = Len(queue) + 1
<1>1. queue \in Seq(Msgs) /\ queue' = Append(queue, m) /\ renderer = "on"
  BY DEF Shape, Send, Open
<1>2. QED
  BY <1>1, AppendIs

\* Sending keeps what the queue is to satisfy, message by message.
LEMMA SentAbout ==
  ASSUME Shape, AboutOK, NEW m \in Msgs, Send(m),
         IF m[1] \in Kinds THEN m[2] \in Jobs ELSE m[2] = NoJob
  PROVE  AboutOK'
<1>1. /\ Len(queue') = Len(queue) + 1 /\ queue'[Len(queue) + 1] = m
      /\ \A i \in 1..Len(queue) : queue'[i] = queue[i]
      /\ \A i \in 1..Len(queue') : i \in 1..Len(queue) \/ i = Len(queue) + 1
  BY Sent
<1>2. QED
  BY <1>1 DEF AboutOK, Kind, About

\* No message is the build's end but the one that BuildEnd sends.
LEMMA SentVerdict ==
  ASSUME Shape, VerdictOK, NEW m \in Msgs, Send(m), m[1] # "over", watch # "gone", watch' # "gone",
         outcome' = outcome, watch' = "canceling" => cancel', watch # "canceling" \/ watch' = "canceling",
         watch' \in {"drain", "relist", "sweep"} => build' \in BuildTerminal,
         UNCHANGED <<build, renderer, codes, cancel>>
  PROVE  VerdictOK'
<1>1. /\ Len(queue') = Len(queue) + 1 /\ queue'[Len(queue) + 1] = m /\ renderer = "on"
      /\ \A i \in 1..Len(queue) : queue'[i] = queue[i]
      /\ \A i \in 1..Len(queue') : i \in 1..Len(queue) \/ i = Len(queue) + 1
  BY Sent
<1>2. \A i \in 1..Len(queue) : Kind(i) # "over"
  BY DEF VerdictOK
<1>3. \A i \in 1..Len(queue') : Kind(i)' # "over"
  BY <1>1, <1>2 DEF Kind
<1>4. outcome = "none" /\ outcome' = "none"
  BY DEF VerdictOK
<1>5. QED
  BY <1>1, <1>3, <1>4 DEF VerdictOK

-----------------------------------------------------------------------------
(* The steps that send and receive nothing.                                 *)

\* They keep the messages; what they do besides is in the actions.
Silent ==
  \/ RequestFails \/ NobodyListens \/ Mint \/ ListJobs \/ Examine \/ SpawnStream \/ GetBuild
  \/ Drain \/ Relist \/ (Sweep /\ UNCHANGED queue) \/ (BuildEnd /\ ~Open)
  \/ (\E j \in Jobs : StreamExpires(j) \/ StreamDone(j) \/ StreamBreaks(j) \/ StreamUnheard(j)
                       \/ StreamAborted(j))
  \/ Backend \/ FeedCloses

LEMMA ExitStatus ==
  ASSUME build \in BuildTerminal
  PROVE  /\ ExitCode(build) \in Codes
         /\ StatusOf(ExitCode(build)) = build /\ build \in {"passed", "failed", "canceled"}
BY DEF BuildTerminal, ExitCode, StatusOf, Codes

LEMMA RequestFailsV == ASSUME VInv, RequestFails PROVE VInv' /\ UNCHANGED <<queue, feed>>
<1>1. Shape'
  BY JobsAssumption DEF VInv, Shape, RequestFails, Leave, Abort, pollVars, streamVars, viewVars, historyVars
<1>2. PlaceOK'
  BY JobsAssumption DEF VInv, Shape, PlaceOK, StreamGone, RequestFails, Leave, Abort, pollVars, streamVars, viewVars, historyVars
<1>3. VerdictOK' /\ UNCHANGED <<queue, feed>>
  BY JobsAssumption DEF VInv, Shape, VerdictOK, Watching, StreamGone, Kind, RequestFails, Leave, Abort, pollVars, streamVars, viewVars, historyVars
<1>4. AboutOK'
  BY <1>3 DEF VInv, AboutOK, Kind, About
<1>5. QED
  BY <1>1, <1>2, <1>3, <1>4 DEF VInv

LEMMA NobodyListensV == ASSUME VInv, NobodyListens PROVE VInv' /\ UNCHANGED <<queue, feed>>
<1>1. Shape'
  BY JobsAssumption DEF VInv, Shape, NobodyListens, Leave, Abort, StatusOf, Open, pollVars, streamVars, viewVars, historyVars
<1>2. PlaceOK'
  BY JobsAssumption DEF VInv, Shape, PlaceOK, StreamGone, NobodyListens, Leave, Abort, StatusOf, Open, pollVars, streamVars, viewVars, historyVars
<1>3. VerdictOK' /\ UNCHANGED <<queue, feed>>
  BY JobsAssumption DEF VInv, Shape, VerdictOK, Watching, StreamGone, Kind, NobodyListens, Leave, Abort, StatusOf, Open, pollVars, streamVars, viewVars, historyVars
<1>4. AboutOK'
  BY <1>3 DEF VInv, AboutOK, Kind, About
<1>5. QED
  BY <1>1, <1>2, <1>3, <1>4 DEF VInv

LEMMA MintV == ASSUME VInv, Mint PROVE VInv' /\ UNCHANGED <<queue, feed>>
<1>1. Shape'
  BY JobsAssumption DEF VInv, Shape, Mint, pollVars, streamVars, viewVars, historyVars
<1>2. PlaceOK'
  BY JobsAssumption DEF VInv, Shape, PlaceOK, StreamGone, Mint, pollVars, streamVars, viewVars, historyVars
<1>3. VerdictOK' /\ UNCHANGED <<queue, feed>>
  BY JobsAssumption DEF VInv, Shape, VerdictOK, Watching, StreamGone, Kind, Mint, pollVars, streamVars, viewVars, historyVars
<1>4. AboutOK'
  BY <1>3 DEF VInv, AboutOK, Kind, About
<1>5. QED
  BY <1>1, <1>2, <1>3, <1>4 DEF VInv

LEMMA ListJobsV == ASSUME VInv, ListJobs PROVE VInv' /\ UNCHANGED <<queue, feed>>
<1>1. Shape'
  BY JobsAssumption DEF VInv, Shape, ListJobs, pollVars, streamVars, viewVars, historyVars
<1>2. PlaceOK'
  BY JobsAssumption DEF VInv, Shape, PlaceOK, StreamGone, ListJobs, pollVars, streamVars, viewVars, historyVars
<1>3. VerdictOK' /\ UNCHANGED <<queue, feed>>
  BY JobsAssumption DEF VInv, Shape, VerdictOK, Watching, StreamGone, Kind, ListJobs, pollVars, streamVars, viewVars, historyVars
<1>4. AboutOK'
  BY <1>3 DEF VInv, AboutOK, Kind, About
<1>5. QED
  BY <1>1, <1>2, <1>3, <1>4 DEF VInv

LEMMA ExamineV == ASSUME VInv, Examine PROVE VInv' /\ UNCHANGED <<queue, feed>>
<1>1. Shape'
  BY TailIs, JobsAssumption DEF VInv, Shape, Examine, LogsAvailable, pollVars, streamVars, viewVars, historyVars
<1>2. PlaceOK'
  BY JobsAssumption DEF VInv, Shape, PlaceOK, StreamGone, Examine, LogsAvailable, pollVars, streamVars, viewVars, historyVars
<1>3. VerdictOK' /\ UNCHANGED <<queue, feed>>
  BY JobsAssumption DEF VInv, Shape, VerdictOK, Watching, StreamGone, Kind, Examine, LogsAvailable, pollVars, streamVars, viewVars, historyVars
<1>4. AboutOK'
  BY <1>3 DEF VInv, AboutOK, Kind, About
<1>5. QED
  BY <1>1, <1>2, <1>3, <1>4 DEF VInv

LEMMA SpawnStreamV == ASSUME VInv, SpawnStream PROVE VInv' /\ UNCHANGED <<queue, feed>>
<1>1. Shape'
  BY JobsAssumption DEF VInv, Shape, SpawnStream, Connects, pollVars, streamVars, viewVars, historyVars
<1>2. PlaceOK'
  BY JobsAssumption DEF VInv, Shape, PlaceOK, StreamGone, SpawnStream, Connects, pollVars, streamVars, viewVars, historyVars
<1>3. VerdictOK' /\ UNCHANGED <<queue, feed>>
  BY JobsAssumption DEF VInv, Shape, VerdictOK, Watching, StreamGone, Kind, SpawnStream, Connects, pollVars, streamVars, viewVars, historyVars
<1>4. AboutOK'
  BY <1>3 DEF VInv, AboutOK, Kind, About
<1>5. QED
  BY <1>1, <1>2, <1>3, <1>4 DEF VInv

LEMMA GetBuildV == ASSUME VInv, GetBuild PROVE VInv' /\ UNCHANGED <<queue, feed>>
<1>1. Shape'
  BY JobsAssumption DEF VInv, Shape, GetBuild, BuildTerminal, pollVars, streamVars, viewVars, historyVars
<1>2. PlaceOK'
  BY JobsAssumption DEF VInv, Shape, PlaceOK, StreamGone, GetBuild, BuildTerminal, pollVars, streamVars, viewVars, historyVars
<1>3. VerdictOK' /\ UNCHANGED <<queue, feed>>
  BY JobsAssumption DEF VInv, Shape, VerdictOK, Watching, StreamGone, Kind, GetBuild, BuildTerminal, pollVars, streamVars, viewVars, historyVars
<1>4. AboutOK'
  BY <1>3 DEF VInv, AboutOK, Kind, About
<1>5. QED
  BY <1>1, <1>2, <1>3, <1>4 DEF VInv

LEMMA DrainV == ASSUME VInv, Drain PROVE VInv' /\ UNCHANGED <<queue, feed>>
<1>1. Shape'
  BY JobsAssumption DEF VInv, Shape, Drain, pollVars, streamVars, viewVars, historyVars
<1>2. PlaceOK'
  BY JobsAssumption DEF VInv, Shape, PlaceOK, StreamGone, Drain, pollVars, streamVars, viewVars, historyVars
<1>3. VerdictOK' /\ UNCHANGED <<queue, feed>>
  BY JobsAssumption DEF VInv, Shape, VerdictOK, Watching, StreamGone, Kind, Drain, pollVars, streamVars, viewVars, historyVars
<1>4. AboutOK'
  BY <1>3 DEF VInv, AboutOK, Kind, About
<1>5. QED
  BY <1>1, <1>2, <1>3, <1>4 DEF VInv

LEMMA RelistV == ASSUME VInv, Relist PROVE VInv' /\ UNCHANGED <<queue, feed>>
<1>1. Shape'
  BY JobsAssumption DEF VInv, Shape, Relist, pollVars, streamVars, viewVars, historyVars
<1>2. PlaceOK'
  BY JobsAssumption DEF VInv, Shape, PlaceOK, StreamGone, Relist, pollVars, streamVars, viewVars, historyVars
<1>3. VerdictOK' /\ UNCHANGED <<queue, feed>>
  BY JobsAssumption DEF VInv, Shape, VerdictOK, Watching, StreamGone, Kind, Relist, pollVars, streamVars, viewVars, historyVars
<1>4. AboutOK'
  BY <1>3 DEF VInv, AboutOK, Kind, About
<1>5. QED
  BY <1>1, <1>2, <1>3, <1>4 DEF VInv

LEMMA SilentEndV ==
  ASSUME VInv, BuildEnd, ~Open
  PROVE  VInv' /\ UNCHANGED <<queue, feed>>
<1>1. /\ watch = "sweep" /\ watch' = "gone" /\ outcome' = build /\ build \in BuildTerminal /\ outcome = "none"
      /\ UNCHANGED <<build, pollVars, streamVars, queue, viewVars, cancel>>
      /\ build \in {"passed", "failed", "canceled"}
  BY ExitStatus DEF VInv, VerdictOK, BuildEnd, Send
<1>2. Shape'
  BY <1>1 DEF VInv, Shape, pollVars, streamVars, viewVars
<1>3. PlaceOK'
  BY <1>1 DEF VInv, PlaceOK, StreamGone, pollVars, streamVars
<1>4. VerdictOK'
  BY <1>1 DEF VInv, VerdictOK, Watching, StreamGone, Kind, pollVars, streamVars, viewVars
<1>5. QED
  BY <1>1, <1>2, <1>3, <1>4 DEF VInv, AboutOK, Kind, About, viewVars

LEMMA SilentSweepV ==
  ASSUME VInv, Sweep, UNCHANGED <<ended, queue>>
  PROVE  VInv' /\ UNCHANGED <<queue, feed>>
<1>1. /\ watch = "sweep" /\ todo' \in Seq(Jobs)
      /\ UNCHANGED <<build, watch, current, streaming, ended, streamVars, queue, viewVars, cancel, outcome>>
  BY TailIs DEF VInv, Shape, Sweep
<1>2. QED
  BY <1>1 DEF VInv, Shape, PlaceOK, VerdictOK, Watching, StreamGone, AboutOK, Kind, About, streamVars, viewVars

LEMMA StreamExpiresV ==
  ASSUME VInv, NEW j \in Jobs, StreamExpires(j)
  PROVE  VInv' /\ UNCHANGED <<queue, feed>>
<1>1. /\ stream' = [stream EXCEPT ![j] = "expired"] /\ stream[j] = "open"
      /\ UNCHANGED <<build, watch, pollVars, queue, viewVars, cancel, outcome>>
  BY DEF StreamExpires
<1>2. Shape'
  BY <1>1 DEF VInv, Shape, pollVars, viewVars
<1>3. /\ \A k \in Jobs \ {j} : stream'[k] = stream[k]
      /\ ~StreamGone(j)
      /\ \A k \in Jobs : StreamGone(k) => StreamGone(k)'
  BY <1>1 DEF VInv, Shape, StreamGone
<1>4. PlaceOK'
  BY <1>1, <1>3 DEF VInv, Shape, PlaceOK, StreamGone, pollVars
<1>5. VerdictOK' /\ AboutOK'
  BY <1>1, <1>3 DEF VInv, VerdictOK, AboutOK, Watching, Kind, About, viewVars
<1>6. QED
  BY <1>1, <1>2, <1>4, <1>5 DEF VInv, viewVars

LEMMA StreamStopsV ==
  ASSUME VInv, NEW j \in Jobs, NEW why, StreamStops(j, why), stream[j] \in {"open", "expired"}
  PROVE  VInv' /\ UNCHANGED <<queue, feed>>
<1>1. /\ stream' = [stream EXCEPT ![j] = "finished"]
      /\ UNCHANGED <<build, watch, pollVars, queue, viewVars, cancel, outcome>>
  BY DEF StreamStops
<1>2. Shape'
  BY <1>1 DEF VInv, Shape, pollVars, viewVars
<1>3. /\ stream'[j] = "finished" /\ \A k \in Jobs \ {j} : stream'[k] = stream[k]
      /\ \A k \in Jobs : StreamGone(k) => StreamGone(k)'
  BY <1>1 DEF VInv, Shape, StreamGone
<1>4. PlaceOK'
  BY <1>1, <1>3 DEF VInv, Shape, PlaceOK, StreamGone, pollVars
<1>5. VerdictOK' /\ AboutOK'
  BY <1>1, <1>3 DEF VInv, VerdictOK, AboutOK, Watching, Kind, About, viewVars
<1>6. QED
  BY <1>1, <1>2, <1>4, <1>5 DEF VInv, viewVars

LEMMA CtrlCV == ASSUME VInv, CtrlC PROVE VInv' /\ UNCHANGED <<queue, feed>>
<1>1. Shape'
  BY JobsAssumption DEF VInv, Shape, CtrlC, pollVars, streamVars, viewVars, historyVars
<1>2. PlaceOK'
  BY JobsAssumption DEF VInv, Shape, PlaceOK, StreamGone, CtrlC, pollVars, streamVars, viewVars, historyVars
<1>3. VerdictOK' /\ UNCHANGED <<queue, feed>>
  BY JobsAssumption DEF VInv, Shape, VerdictOK, Watching, StreamGone, Kind, CtrlC, pollVars, streamVars, viewVars, historyVars
<1>4. AboutOK'
  BY <1>3 DEF VInv, AboutOK, Kind, About
<1>5. QED
  BY <1>1, <1>2, <1>3, <1>4 DEF VInv

LEMMA CancelledV == ASSUME VInv, Cancelled PROVE VInv' /\ UNCHANGED <<queue, feed>>
<1>1. Shape'
  BY JobsAssumption DEF VInv, Shape, Cancelled, pollVars, streamVars, viewVars, historyVars
<1>2. PlaceOK'
  BY JobsAssumption DEF VInv, Shape, PlaceOK, StreamGone, Cancelled, pollVars, streamVars, viewVars, historyVars
<1>3. VerdictOK' /\ UNCHANGED <<queue, feed>>
  BY JobsAssumption DEF VInv, Shape, VerdictOK, Watching, StreamGone, Kind, Cancelled, pollVars, streamVars, viewVars, historyVars
<1>4. AboutOK'
  BY <1>3 DEF VInv, AboutOK, Kind, About
<1>5. QED
  BY <1>1, <1>2, <1>3, <1>4 DEF VInv

LEMMA CancelBuildV == ASSUME VInv, CancelBuild PROVE VInv' /\ UNCHANGED <<queue, feed>>
<1>1. Shape'
  BY JobsAssumption DEF VInv, Shape, CancelBuild, pollVars, streamVars, viewVars, historyVars
<1>2. PlaceOK'
  BY JobsAssumption DEF VInv, Shape, PlaceOK, StreamGone, CancelBuild, pollVars, streamVars, viewVars, historyVars
<1>3. VerdictOK' /\ UNCHANGED <<queue, feed>>
  BY JobsAssumption DEF VInv, Shape, VerdictOK, Watching, StreamGone, Kind, CancelBuild, pollVars, streamVars, viewVars, historyVars
<1>4. AboutOK'
  BY <1>3 DEF VInv, AboutOK, Kind, About
<1>5. QED
  BY <1>1, <1>2, <1>3, <1>4 DEF VInv

LEMMA FeedClosesV == ASSUME VInv, FeedCloses PROVE VInv' /\ UNCHANGED <<queue, feed>>
<1>1. Shape'
  BY JobsAssumption DEF VInv, Shape, FeedCloses, Open, Senders, pollVars, streamVars, viewVars, historyVars
<1>2. PlaceOK'
  BY JobsAssumption DEF VInv, Shape, PlaceOK, StreamGone, FeedCloses, Open, Senders, pollVars, streamVars, viewVars, historyVars
<1>3. VerdictOK' /\ UNCHANGED <<queue, feed>>
  BY JobsAssumption DEF VInv, Shape, VerdictOK, Watching, StreamGone, Kind, FeedCloses, Open, Senders, pollVars, streamVars, viewVars, historyVars
<1>4. AboutOK'
  BY <1>3 DEF VInv, AboutOK, Kind, About
<1>5. QED
  BY <1>1, <1>2, <1>3, <1>4 DEF VInv

\* A sweep that sends nothing closes nobody.
LEMMA SilentSweepEnds ==
  ASSUME VInv, Sweep, UNCHANGED queue
  PROVE  UNCHANGED ended
<1>1. Len(queue) \in Nat /\ queue \in Seq(Msgs)
  BY DEF VInv, Shape
<1> SUFFICES ASSUME Closes(Head(todo)) PROVE FALSE
  BY DEF Sweep
<1> DEFINE m == <<"ended", Head(todo), EndCode(seen[Head(todo)])>>
<1>2. m \in Msgs
  <2>1. Head(todo) \in Jobs /\ EndCode(seen[Head(todo)]) \in Codes
    BY DEF Sweep, VInv, Shape, EndCode, Codes
  <2>2. QED
    BY <2>1, MsgIs DEF Kinds
<1>3. Send(m)
  BY DEF Sweep
<1> HIDE DEF m
<1>4. Len(queue') = Len(queue) + 1
  BY <1>2, <1>3, Sent DEF VInv
<1>5. QED
  BY <1>1, <1>4

LEMMA SilentV == ASSUME VInv, Silent PROVE VInv' /\ UNCHANGED <<queue, feed>>
<1>1. ASSUME Sweep, UNCHANGED queue PROVE VInv' /\ UNCHANGED <<queue, feed>>
  BY <1>1, SilentSweepEnds, SilentSweepV
<1>2. ASSUME NEW j \in Jobs, StreamDone(j) \/ StreamBreaks(j) \/ StreamUnheard(j) \/ StreamAborted(j)
      PROVE  VInv' /\ UNCHANGED <<queue, feed>>
  <2>1. stream[j] \in {"open", "expired"} /\ (StreamStops(j, "no") \/ StreamStops(j, "broken"))
    BY <1>2 DEF StreamDone, StreamBreaks, StreamUnheard, StreamAborted, StreamGone, VInv, Shape
  <2>2. QED
    BY <2>1, StreamStopsV
<1>3. QED
  BY <1>1, <1>2, RequestFailsV, NobodyListensV, MintV, ListJobsV, ExamineV, SpawnStreamV, GetBuildV,
     DrainV, RelistV, SilentEndV, StreamExpiresV, CtrlCV, CancelledV, CancelBuildV, FeedClosesV
     DEF Silent, Backend

-----------------------------------------------------------------------------
(* The steps that send.                                                     *)

\* The event of a step that sends one.
Event ==
  CASE watch = "open"  -> <<"buildstart", NoJob>>
    [] watch = "queue" -> <<"queued", current>>
    [] watch = "start" -> <<"started", current>>

LEMMA AnnounceV ==
  ASSUME VInv, BuildStart \/ StepQueued \/ StepStart
  PROVE  VInv' /\ Event \in Msgs /\ Send(Event) /\ UNCHANGED feed
<1>1. /\ watch \in {"open", "queue", "start"} /\ Send(Event)
      /\ watch' = CASE watch = "open" -> "list" [] watch = "queue" -> "start" [] watch = "start" -> "spawn"
      /\ UNCHANGED <<build, pollVars, streamVars, viewVars, cancel, outcome>>
  BY DEF BuildStart, StepQueued, StepStart, Event
<1>2. Event \in Msgs /\ Event[1] # "over" /\ IF Event[1] \in Kinds THEN Event[2] \in Jobs ELSE Event[2] = NoJob
  <2>1. CASE watch = "open"
    BY <2>1, MsgIs DEF Event, Kinds, Quiet
  <2>2. CASE watch = "queue"
    BY <2>2, MsgIs DEF Event, Kinds, VInv, PlaceOK
  <2>3. CASE watch = "start"
    BY <2>3, MsgIs DEF Event, Kinds, VInv, PlaceOK
  <2>4. QED
    BY <1>1, <2>1, <2>2, <2>3
<1> HIDE DEF Event
<1>3. Shape'
  <2>1. queue' \in Seq(Msgs)
    BY <1>1, <1>2, Sent DEF VInv
  <2>2. QED
    BY <1>1, <2>1 DEF VInv, Shape, pollVars, streamVars, viewVars
<1>4. PlaceOK'
  BY <1>1 DEF VInv, PlaceOK, StreamGone, pollVars, streamVars
<1>5. VerdictOK'
  BY <1>1, <1>2, SentVerdict DEF VInv, viewVars
<1>6. AboutOK'
  BY <1>1, <1>2, SentAbout DEF VInv
<1>7. QED
  BY <1>1, <1>2, <1>3, <1>4, <1>5, <1>6 DEF VInv, viewVars

LEMMA SweepV ==
  ASSUME VInv, Sweep, ~UNCHANGED queue
  PROVE  \E j \in Jobs, c \in Codes :
           /\ VInv' /\ UNCHANGED <<feed, watch, stream, current, streaming, renderer>>
           /\ watch = "sweep" /\ j \notin ended /\ ended' = ended \cup {j} /\ Send(<<"ended", j, c>>)
<1> DEFINE j == Head(todo)
           c == EndCode(seen[j])
           e == <<"ended", j, c>>
<1>1. /\ watch = "sweep" /\ todo # <<>> /\ todo' = Tail(todo) /\ Send(e) /\ Closes(j)
      /\ ended' = ended \union {j}
      /\ UNCHANGED <<build, watch, current, streaming, streamVars, viewVars, cancel, outcome>>
  BY DEF Sweep
<1>2. j \in Jobs /\ c \in Codes /\ todo' \in Seq(Jobs) /\ j \notin ended
  BY <1>1, TailIs DEF VInv, Shape, EndCode, Codes, Closes
<1> HIDE DEF j, c
<1>3. e \in Msgs /\ e[1] = "ended" /\ e[2] = j
  BY <1>2, MsgIs DEF Kinds
<1> HIDE DEF e
<1>4. Shape'
  <2>1. queue' \in Seq(Msgs)
    BY <1>1, <1>3, Sent DEF VInv
  <2>2. QED
    BY <1>1, <1>2, <2>1 DEF VInv, Shape, streamVars, viewVars
<1>5. PlaceOK'
  BY <1>1 DEF VInv, PlaceOK, StreamGone, streamVars
<1>6. VerdictOK'
  BY <1>1, <1>3, SentVerdict DEF VInv, VerdictOK, viewVars
<1>7. AboutOK'
  BY <1>1, <1>2, <1>3, SentAbout DEF VInv, Kinds
<1>8. VInv'
  BY <1>4, <1>5, <1>6, <1>7 DEF VInv
<1>9. QED
  BY <1>1, <1>2, <1>8 DEF e, streamVars, viewVars

LEMMA EndV ==
  ASSUME VInv, BuildEnd, Open
  PROVE  \E c \in Codes :
           /\ VInv' /\ Send(<<"over", NoJob, c>>) /\ watch = "sweep" /\ watch' = "gone"
           /\ UNCHANGED <<feed, stream, current, streaming, ended, renderer>>
<1> DEFINE c == ExitCode(build)
           e == <<"over", NoJob, c>>
<1>1. /\ watch = "sweep" /\ watch' = "gone" /\ outcome' = build /\ build \in BuildTerminal /\ outcome = "none"
      /\ UNCHANGED <<build, pollVars, streamVars, viewVars, cancel>> /\ Send(e)
      /\ build \in {"passed", "failed", "canceled"} /\ StatusOf(c) = build /\ c \in Codes
  BY ExitStatus DEF VInv, VerdictOK, BuildEnd
<1> HIDE DEF c
<1>2. e \in Msgs /\ e[1] = "over" /\ e[2] = NoJob /\ e[3] = c
  BY <1>1, MsgIs DEF Quiet
<1> HIDE DEF e
<1>3. Shape'
  <2>1. queue' \in Seq(Msgs)
    BY <1>1, <1>2, Sent DEF VInv
  <2>2. QED
    BY <1>1, <2>1 DEF VInv, Shape, pollVars, streamVars, viewVars
<1>4. PlaceOK'
  BY <1>1 DEF VInv, PlaceOK, StreamGone, pollVars, streamVars
<1>5. VerdictOK'
  <2>1. /\ Len(queue') = Len(queue) + 1 /\ queue'[Len(queue) + 1] = e
        /\ \A i \in 1..Len(queue) : queue'[i] = queue[i]
        /\ \A i \in 1..Len(queue') : i \in 1..Len(queue) \/ i = Len(queue) + 1
    BY <1>1, <1>2, Sent DEF VInv
  <2>2. \A i \in 1..Len(queue) : Kind(i) # "over"
    BY <1>1 DEF VInv, VerdictOK
  <2>3. \A j \in Jobs : StreamGone(j)'
    BY <1>1 DEF VInv, PlaceOK, StreamGone, streamVars
  <2>4. \A i \in 1..Len(queue') : Kind(i)' = "over" => queue'[i] = e
    BY <2>1, <2>2 DEF Kind
  <2>5. \A i \in 1..Len(queue') : Kind(i)' = "over" =>
          /\ watch' = "gone" /\ \A j \in Jobs : StreamGone(j)'
          /\ outcome' = StatusOf(queue'[i][3]) /\ queue'[i][3] \in Codes
    BY <1>1, <1>2, <2>3, <2>4
  <2>6. QED
    BY <1>1, <2>5 DEF VInv, VerdictOK, Watching, viewVars
<1>6. AboutOK'
  BY <1>1, <1>2, SentAbout DEF VInv, Kinds
<1>7. VInv'
  BY <1>3, <1>4, <1>5, <1>6 DEF VInv
<1>8. QED
  BY <1>1, <1>7 DEF e, pollVars, streamVars, viewVars

LEMMA LogV ==
  ASSUME VInv, NEW j \in Jobs, StreamLine(j) \/ Notice(j)
  PROVE  /\ VInv' /\ Send(<<"log", j>>) /\ stream[j] \in {"open", "expired"}
         /\ UNCHANGED <<feed, watch, current, streaming, ended, renderer>>
         /\ \A k \in Jobs : stream'[k] \in {stream[k], "finished"}
<1> DEFINE e == <<"log", j>>
<1>1. /\ Send(e) /\ stream[j] \in {"open", "expired"}
      /\ stream' = stream \/ stream' = [stream EXCEPT ![j] = "finished"]
      /\ UNCHANGED <<build, watch, pollVars, viewVars, cancel, outcome>>
  BY DEF StreamLine, Notice
<1>2. e \in Msgs /\ e[1] = "log" /\ e[2] = j
  BY MsgIs DEF Kinds
<1> HIDE DEF e
<1>3. Shape' /\ \A k \in Jobs : stream'[k] \in {stream[k], "finished"} /\ (StreamGone(k) => StreamGone(k)')
  <2>1. queue' \in Seq(Msgs)
    BY <1>1, <1>2, Sent DEF VInv
  <2>2. QED
    <3>1. stream \in [Jobs -> {"none", "open", "expired", "finished"}]
      BY DEF VInv, Shape
    <3>2. /\ stream' \in [Jobs -> {"none", "open", "expired", "finished"}]
          /\ \A k \in Jobs : stream'[k] \in {stream[k], "finished"}
      BY <1>1, <3>1
    <3>3. \A k \in Jobs : StreamGone(k) => StreamGone(k)'
      BY <3>2 DEF StreamGone
    <3>4. Shape'
      BY <1>1, <2>1, <3>2 DEF VInv, Shape, pollVars, viewVars
    <3>5. QED
      BY <3>2, <3>3, <3>4
<1>4. PlaceOK'
  BY <1>1, <1>3 DEF VInv, PlaceOK, Shape, StreamGone, pollVars
<1>5. VerdictOK'
  <2>1. /\ Len(queue') = Len(queue) + 1 /\ queue'[Len(queue) + 1] = e
        /\ \A i \in 1..Len(queue) : queue'[i] = queue[i]
        /\ \A i \in 1..Len(queue') : i \in 1..Len(queue) \/ i = Len(queue) + 1
    BY <1>1, <1>2, Sent DEF VInv
  <2>2. \A i \in 1..Len(queue) : Kind(i) # "over"
    BY <1>1 DEF VInv, VerdictOK, StreamGone
  <2>3. \A i \in 1..Len(queue') : Kind(i)' # "over"
    BY <1>2, <2>1, <2>2 DEF Kind
  <2>4. QED
    BY <1>1, <2>3 DEF VInv, VerdictOK, Watching, viewVars
<1>6. AboutOK'
  BY <1>1, <1>2, SentAbout DEF VInv, Kinds
<1>7. QED
  BY <1>1, <1>3, <1>4, <1>5, <1>6 DEF VInv, e, pollVars, viewVars

-----------------------------------------------------------------------------
(* The renderer's steps.                                                    *)

\* The next message, taken off the queue.
LEMMA Popped ==
  ASSUME VInv, queue # <<>>, queue' = Tail(queue)
  PROVE  /\ queue' \in Seq(Msgs) /\ Len(queue') = Len(queue) - 1 /\ Len(queue) \in Nat
         /\ Head(queue) = queue[1] /\ 1 \in 1..Len(queue)
         /\ \A i \in 1..Len(queue') : queue'[i] = queue[i + 1] /\ i + 1 \in 1..Len(queue)
BY TailIs DEF VInv, Shape

LEMMA ReceiveV ==
  ASSUME VInv, Receive
  PROVE  /\ VInv' /\ renderer = "on" /\ queue # <<>>
         /\ UNCHANGED <<watch, stream, current, streaming, ended>>
         /\ IF Kind(1) = "over" THEN UNCHANGED feed /\ codes' # <<>> /\ renderer' # "on" /\ queue' = <<>>
            ELSE /\ queue' = Tail(queue) /\ UNCHANGED codes
                 /\ feed' = IF About(1) = NoJob THEN feed
                            ELSE [feed EXCEPT ![About(1)] = Append(@, Kind(1))]
<1>1. /\ renderer = "on" /\ queue # <<>> /\ queue \in Seq(Msgs) /\ codes = <<>>
      /\ UNCHANGED <<build, watch, pollVars, streamVars, cancel, outcome>>
  BY DEF Receive, Open, VInv, Shape, VerdictOK
<1>2. Head(queue) = queue[1] /\ 1 \in 1..Len(queue)
  BY <1>1, TailIs
<1>3. CASE Kind(1) = "over"
  <2>1. /\ queue' = <<>> /\ renderer' = "done" /\ codes' = Append(<<>>, queue[1][3])
    BY <1>1, <1>2, <1>3 DEF Receive, Kind
  <2>2. /\ About(1) = NoJob /\ queue[1][3] \in Codes /\ watch = "gone" /\ outcome = StatusOf(queue[1][3])
    BY <1>2, <1>3 DEF VInv, AboutOK, VerdictOK, Kinds
  <2>3. UNCHANGED feed
    BY <1>2, <2>2 DEF Receive, About
  <2>4. codes' \in Seq(Codes) /\ codes' # <<>> /\ codes'[1] = queue[1][3] /\ queue' \in Seq(Msgs)
        /\ Len(queue') = 0
    BY <2>1, <2>2
  <2>5. Shape'
    BY <1>1, <2>1, <2>3, <2>4 DEF VInv, Shape, pollVars, streamVars
  <2>6. PlaceOK'
    BY <1>1 DEF VInv, PlaceOK, StreamGone, pollVars, streamVars
  <2>7. VerdictOK'
    BY <1>1, <2>1, <2>2, <2>4 DEF VInv, VerdictOK, Watching
  <2>8. AboutOK'
    BY <2>4 DEF AboutOK
  <2>9. QED
    BY <1>1, <1>3, <2>1, <2>3, <2>4, <2>5, <2>6, <2>7, <2>8 DEF VInv, pollVars, streamVars
<1>4. CASE Kind(1) # "over"
  <2>1. /\ queue' = Tail(queue) /\ renderer' = "on" /\ codes' = codes
        /\ feed' = IF About(1) = NoJob THEN feed ELSE [feed EXCEPT ![About(1)] = Append(@, Kind(1))]
    BY <1>1, <1>2, <1>4 DEF Receive, Kind, About
  <2>2. /\ queue' \in Seq(Msgs)
        /\ \A i \in 1..Len(queue') : queue'[i] = queue[i + 1] /\ i + 1 \in 1..Len(queue)
    BY <1>1, <2>1, Popped
  <2>3. feed' \in [Jobs -> Seq(Kinds)]
    <3>1. CASE About(1) = NoJob
      BY <2>1, <3>1 DEF VInv, Shape
    <3>2. CASE About(1) # NoJob
      <4>1. Kind(1) \in Kinds /\ About(1) \in Jobs
        BY <1>2, <3>2 DEF VInv, AboutOK
      <4>2. Append(feed[About(1)], Kind(1)) \in Seq(Kinds)
        BY <4>1, AppendIs DEF VInv, Shape
      <4>3. QED
        BY <2>1, <3>2, <4>1, <4>2 DEF VInv, Shape
    <3>3. QED
      BY <3>1, <3>2
  <2>4. Shape'
    BY <1>1, <2>1, <2>2, <2>3 DEF VInv, Shape, pollVars, streamVars
  <2>5. PlaceOK'
    BY <1>1 DEF VInv, PlaceOK, StreamGone, pollVars, streamVars
  <2>6. \A i \in 1..Len(queue') : Kind(i)' = Kind(i + 1) /\ About(i)' = About(i + 1) /\ i + 1 \in 1..Len(queue)
                                  /\ queue'[i] = queue[i + 1]
    BY <2>2 DEF Kind, About
  <2>7. VerdictOK'
    <3>1. \A i \in 1..Len(queue') : Kind(i)' = "over" =>
            /\ watch' = "gone" /\ \A j \in Jobs : StreamGone(j)'
            /\ outcome' = StatusOf(queue'[i][3]) /\ queue'[i][3] \in Codes
      BY <1>1, <2>6 DEF VInv, VerdictOK, StreamGone, streamVars
    <3>2. QED
      BY <1>1, <2>1, <3>1 DEF VInv, VerdictOK, Watching
  <2>8. AboutOK'
    BY <2>6 DEF VInv, AboutOK
  <2>9. QED
    BY <1>1, <1>4, <2>1, <2>4, <2>5, <2>7, <2>8 DEF VInv, pollVars, streamVars
<1>5. QED
  BY <1>3, <1>4

LEMMA DiesV ==
  ASSUME VInv, RendererDies
  PROVE  VInv' /\ UNCHANGED <<feed, watch, stream, current, streaming, ended, codes>>
         /\ renderer' = "dead" /\ queue' = <<>>
<1>1. /\ renderer = "on" /\ renderer' = "dead" /\ queue' = <<>> /\ codes = <<>>
      /\ UNCHANGED <<build, watch, pollVars, streamVars, feed, codes, cancel, outcome>>
  BY DEF RendererDies, Open, VInv, VerdictOK
<1>2. queue' \in Seq(Msgs) /\ Len(queue') = 0
  BY <1>1
<1>3. Shape' /\ PlaceOK'
  BY <1>1, <1>2 DEF VInv, Shape, PlaceOK, StreamGone, pollVars, streamVars
<1>4. VerdictOK' /\ AboutOK'
  BY <1>1, <1>2 DEF VInv, VerdictOK, AboutOK, Watching
<1>5. QED
  BY <1>1, <1>3, <1>4 DEF VInv, pollVars, streamVars

-----------------------------------------------------------------------------
(* The verdict.                                                             *)

\* What a step may do to what the renderer is told.
LEMMA Steps ==
  ASSUME VInv, Next
  PROVE  \/ Silent
         \/ BuildStart \/ StepQueued \/ StepStart
         \/ Sweep /\ ~UNCHANGED queue
         \/ BuildEnd /\ Open
         \/ \E j \in Jobs : StreamLine(j) \/ Notice(j)
         \/ Receive \/ RendererDies
BY DEF Next, Watcher, Streams, Renderer, Silent

LEMMA InitV == Init => VInv
<1> SUFFICES ASSUME Init PROVE VInv
  OBVIOUS
<1>1. /\ queue = <<<<"accepted", NoJob>>>> /\ <<"accepted", NoJob>> \in Msgs
      /\ <<"accepted", NoJob>>[1] = "accepted" /\ <<"accepted", NoJob>>[2] = NoJob
  BY MsgIs DEF Init, Quiet
<1> DEFINE m == <<"accepted", NoJob>>
<1> HIDE DEF m
<1>2. queue = <<m>> /\ m \in Msgs /\ m[1] = "accepted" /\ m[2] = NoJob
  BY <1>1 DEF m
<1>3. queue \in Seq(Msgs) /\ Len(queue) = 1 /\ queue[1] = m
  BY <1>2
<1>4. \A i \in 1..Len(queue) : Kind(i) = "accepted" /\ About(i) = NoJob
  BY <1>2, <1>3 DEF Kind, About
<1>5. Shape
  <2>1. /\ build = "running" /\ watch = "mint" /\ current = NoJob /\ streaming = {} /\ ended = {}
        /\ renderer = "on" /\ cancel = FALSE /\ outcome = "none"
    BY DEF Init
  <2>2. stream \in [Jobs -> {"none", "open", "expired", "finished"}]
    BY DEF Init
  <2>3. todo \in Seq(Jobs) /\ codes \in Seq(Codes)
    BY EmptySeq DEF Init
  <2>4. feed \in [Jobs -> Seq(Kinds)]
    <3>1. <<>> \in Seq(Kinds)
      BY EmptySeq
    <3>2. QED
      BY <3>1 DEF Init
  <2>5. QED
    BY <1>3, <2>1, <2>2, <2>3, <2>4 DEF Shape
<1>6. PlaceOK
  BY DEF Init, PlaceOK, StreamGone
<1>7. VerdictOK
  BY <1>4 DEF Init, VerdictOK, Watching
<1>8. AboutOK
  BY <1>4 DEF AboutOK, Kinds
<1>9. QED
  BY <1>5, <1>6, <1>7, <1>8 DEF VInv

LEMMA NextV == VInv /\ [Next]_vars => VInv'
<1> SUFFICES ASSUME VInv, [Next]_vars PROVE VInv'
  OBVIOUS
<1>1. CASE Next
  BY <1>1, Steps, SilentV, AnnounceV, SweepV, EndV, LogV, ReceiveV, DiesV
<1>2. CASE UNCHANGED vars
  BY <1>2 DEF vars, pollVars, streamVars, viewVars, historyVars, VInv, Shape, PlaceOK, VerdictOK, AboutOK,
              Watching, StreamGone, Kind, About
<1>3. QED
  BY <1>1, <1>2

\* The watcher, its streams, the channel and the outcome always fit together:
\* the inductive invariant of the watch.
THEOREM WatchInvariance == Spec => []VInv
<1>1. Init => VInv
  BY InitV
<1>2. VInv /\ [Next]_vars => VInv'
  BY NextV
<1>3. QED
  BY <1>1, <1>2, PTL DEF Spec

\* Whatever the server answers, whoever dies and whenever Ctrl-C comes, hm run
\* returns the server's verdict and the renderer was told the same one.
THEOREM Verdict == Spec => []VerdictIsServers
<1>1. VInv => VerdictIsServers
  BY DEF VInv, VerdictOK, VerdictIsServers
<1>2. QED
  BY <1>1, WatchInvariance, PTL

-----------------------------------------------------------------------------
(* The watch of a cloud build implements BuildFeed: whatever the poll      *)
(* loop, the log streams and the renderer do, each job is queued, started, *)
(* logged and closed in this order, and nothing follows the build's end.   *)
(*                                                                         *)
(* q stands for the messages on their way, f for what was shown of each    *)
(* job, b for the kind of the message at hand.                             *)

Says(q, i) == q[i][1]
Of(q, i) == q[i][2]
LastOf(s) == s[Len(s)]
Lives(s) == s # <<>> /\ LastOf(s) \in {"started", "log"}

\* What may come later of a job than what.
Pre(a, b) ==
  \/ a = "queued" /\ b \in {"started", "log", "ended"}
  \/ a \in {"started", "log"} /\ b \in {"log", "ended"}

Before(q, i, b) == \E k \in 1..Len(q) : k < i /\ Of(q, k) = Of(q, i) /\ Says(q, k) = b
IsFirst(q, i) == \A k \in 1..Len(q) : k < i => Of(q, k) # Of(q, i)

\* A message may follow those before it and what was shown of its job, and has
\* what it needs.
FitsAt(q, f, i) ==
  /\ \A k \in 1..Len(q) : k < i /\ Of(q, k) = Of(q, i) => Pre(Says(q, k), Says(q, i))
  /\ f[Of(q, i)] # <<>> => Pre(LastOf(f[Of(q, i)]), Says(q, i))
  /\ Says(q, i) = "started" => f[Of(q, i)] = <<"queued">> \/ Before(q, i, "queued")
  /\ Says(q, i) = "log" => Lives(f[Of(q, i)]) \/ Before(q, i, "started")
  /\ Says(q, i) = "ended" => \/ Lives(f[Of(q, i)]) \/ Before(q, i, "started")
                             \/ f[Of(q, i)] = <<>> /\ IsFirst(q, i)

Fits(q, f) == \A i \in 1..Len(q) : Of(q, i) # NoJob => FitsAt(q, f, i)

\* What the renderer was told of a job, or will be.
Untold(q, f, j) == f[j] = <<>> /\ \A i \in 1..Len(q) : Of(q, i) # j
Waits(q, f, j) ==
  /\ \A i \in 1..Len(q) : Of(q, i) = j => Says(q, i) = "queued"
  /\ \/ f[j] = <<"queued">>
     \/ f[j] = <<>> /\ \E i \in 1..Len(q) : Of(q, i) = j /\ Says(q, i) = "queued"
Begins(q, f, j) == Lives(f[j]) \/ \E i \in 1..Len(q) : Of(q, i) = j /\ Says(q, i) = "started"
Closed(q, f, j) ==
  \/ f[j] # <<>> /\ LastOf(f[j]) = "ended"
  \/ \E i \in 1..Len(q) : Of(q, i) = j /\ Says(q, i) = "ended"

Announcing == watch \in {"queue", "start", "spawn"}

\* That, against where the watcher and the streams are.
Told ==
  /\ \A j \in Jobs : j \notin streaming /\ j \notin ended => Untold(queue, feed, j)
  /\ watch = "queue" => Untold(queue, feed, current)
  /\ watch = "start" => Waits(queue, feed, current)
  /\ watch = "spawn" => Begins(queue, feed, current)
  /\ \A j \in streaming :
       j \notin ended /\ Watching /\ ~(Announcing /\ current = j) => Begins(queue, feed, j)
  /\ \A j \in Jobs : stream[j] \in {"open", "expired"} => Begins(queue, feed, j)
  /\ \A j \in Jobs : Closed(queue, feed, j) => j \in ended

FInv == VInv /\ (renderer = "on" => Fits(queue, feed) /\ Told)

\* Messages about jobs are of the four kinds.
Typed(q, f) ==
  /\ q \in Seq(Msgs) /\ f \in [Jobs -> Seq(Kinds)]
  /\ \A i \in 1..Len(q) : IF Says(q, i) \in Kinds THEN Of(q, i) \in Jobs ELSE Of(q, i) = NoJob

LEMMA IsTyped == ASSUME VInv PROVE Typed(queue, feed)
BY DEF VInv, Shape, AboutOK, Kind, About, Typed, Says, Of

-----------------------------------------------------------------------------
(* A message is sent.                                                       *)

LEMMA Sending ==
  ASSUME NEW q, NEW f, Typed(q, f), NEW e \in Msgs
  PROVE  LET q2 == Append(q, e)
         IN /\ Len(q2) = Len(q) + 1 /\ Len(q) \in Nat /\ q2 \in Seq(Msgs)
            /\ Says(q2, Len(q) + 1) = e[1] /\ Of(q2, Len(q) + 1) = e[2]
            /\ \A i \in 1..Len(q) : Says(q2, i) = Says(q, i) /\ Of(q2, i) = Of(q, i)
            /\ \A i \in 1..Len(q2) : i \in 1..Len(q) \/ i = Len(q) + 1
            /\ 1..Len(q) \subseteq 1..Len(q2)
BY AppendIs DEF Typed, Says, Of

LEMMA SendFits ==
  ASSUME NEW q, NEW f, Typed(q, f), Fits(q, f), NEW e \in Msgs,
         e[2] # NoJob =>
           /\ \A k \in 1..Len(q) : Of(q, k) = e[2] => Pre(Says(q, k), e[1])
           /\ f[e[2]] # <<>> => Pre(LastOf(f[e[2]]), e[1])
           /\ e[1] = "started" => Waits(q, f, e[2])
           /\ e[1] = "log" => Begins(q, f, e[2])
           /\ e[1] = "ended" => Begins(q, f, e[2]) \/ Untold(q, f, e[2])
  PROVE  Fits(Append(q, e), f)
<1> DEFINE q2 == Append(q, e)
           n == Len(q) + 1
<1>1. /\ Len(q2) = n /\ Len(q) \in Nat
      /\ Says(q2, n) = e[1] /\ Of(q2, n) = e[2]
      /\ \A i \in 1..Len(q) : Says(q2, i) = Says(q, i) /\ Of(q2, i) = Of(q, i)
      /\ \A i \in 1..Len(q2) : i \in 1..Len(q) \/ i = n
      /\ 1..Len(q) \subseteq 1..Len(q2)
  BY Sending
<1>2. \A i \in 1..Len(q), k \in 1..Len(q2) : k < i => k \in 1..Len(q)
  BY <1>1
<1>3. \A k \in 1..Len(q2) : k < n => k \in 1..Len(q)
  BY <1>1
<1>4. \A k \in 1..Len(q) : k < n
  BY <1>1
<1> HIDE DEF q2, n
<1>5. ASSUME NEW i \in 1..Len(q), Of(q, i) # NoJob PROVE FitsAt(q2, f, i)
  <2>1. FitsAt(q, f, i)
    BY <1>5 DEF Fits
  <2>2. \A b : Before(q, i, b) => Before(q2, i, b)
    BY <1>1 DEF Before
  <2>3. IsFirst(q, i) => IsFirst(q2, i)
    BY <1>1, <1>2 DEF IsFirst
  <2>4. Says(q2, i) = Says(q, i) /\ Of(q2, i) = Of(q, i)
    BY <1>1
  <2>5. \A k \in 1..Len(q2) : k < i /\ Of(q2, k) = Of(q2, i) => Pre(Says(q2, k), Says(q2, i))
    BY <1>1, <1>2, <2>1, <2>4 DEF FitsAt
  <2>6. QED
    BY <2>1, <2>2, <2>3, <2>4, <2>5 DEF FitsAt
<1>6. ASSUME e[2] # NoJob PROVE FitsAt(q2, f, n)
  <2>1. \A k \in 1..Len(q2) : k < n /\ Of(q2, k) = Of(q2, n) => Pre(Says(q2, k), Says(q2, n))
    BY <1>1, <1>3, <1>6
  <2>3. ASSUME NEW b, NEW k \in 1..Len(q), Of(q, k) = e[2], Says(q, k) = b PROVE Before(q2, n, b)
    BY <1>1, <1>4, <2>3 DEF Before
  <2>4. e[1] = "started" => f[e[2]] = <<"queued">> \/ Before(q2, n, "queued")
    BY <1>6, <2>3 DEF Waits
  <2>5. e[1] \in {"log", "ended"} => Lives(f[e[2]]) \/ Before(q2, n, "started") \/ Untold(q, f, e[2])
    BY <1>6, <2>3 DEF Begins
  <2>6. e[1] = "log" => Lives(f[e[2]]) \/ Before(q2, n, "started")
    BY <1>6, <2>3 DEF Begins
  <2>7. Untold(q, f, e[2]) => f[e[2]] = <<>> /\ IsFirst(q2, n)
    BY <1>1, <1>3 DEF Untold, IsFirst
  <2>8. QED
    BY <1>1, <1>6, <2>1, <2>4, <2>5, <2>6, <2>7 DEF FitsAt
<1>7. QED
  <2> SUFFICES ASSUME NEW i \in 1..Len(q2), Of(q2, i) # NoJob PROVE FitsAt(q2, f, i)
    BY DEF Fits, q2
  <2>1. CASE i \in 1..Len(q)
    BY <1>1, <1>5, <2>1
  <2>2. CASE i = n
    BY <1>1, <1>6, <2>2
  <2>3. QED
    BY <1>1, <2>1, <2>2

\* What it does to what a job's renderer knows.
LEMMA SendTells ==
  ASSUME NEW q, NEW f, Typed(q, f), NEW e \in Msgs, NEW j
  PROVE  LET q2 == Append(q, e)
         IN /\ Untold(q, f, j) /\ e[2] # j => Untold(q2, f, j)
            /\ Waits(q, f, j) /\ e[2] # j => Waits(q2, f, j)
            /\ Begins(q, f, j) => Begins(q2, f, j)
            /\ Closed(q2, f, j) => Closed(q, f, j) \/ (e[2] = j /\ e[1] = "ended")
            /\ e[2] = j /\ e[1] = "queued" /\ Untold(q, f, j) => Waits(q2, f, j)
            /\ e[2] = j /\ e[1] = "started" => Begins(q2, f, j)
<1> DEFINE q2 == Append(q, e)
           n == Len(q) + 1
<1>1. /\ Len(q2) = n /\ Len(q) \in Nat
      /\ Says(q2, n) = e[1] /\ Of(q2, n) = e[2]
      /\ \A i \in 1..Len(q) : Says(q2, i) = Says(q, i) /\ Of(q2, i) = Of(q, i)
      /\ \A i \in 1..Len(q2) : i \in 1..Len(q) \/ i = n
      /\ 1..Len(q) \subseteq 1..Len(q2) /\ n \in 1..Len(q2)
  BY Sending
<1> HIDE DEF q2, n
<1>2. Untold(q, f, j) /\ e[2] # j => Untold(q2, f, j)
  BY <1>1 DEF Untold
<1>3. Waits(q, f, j) /\ e[2] # j => Waits(q2, f, j)
  BY <1>1 DEF Waits
<1>4. Begins(q, f, j) => Begins(q2, f, j)
  BY <1>1 DEF Begins
<1>5. Closed(q2, f, j) => Closed(q, f, j) \/ (e[2] = j /\ e[1] = "ended")
  BY <1>1 DEF Closed
<1>6. e[2] = j /\ e[1] = "queued" /\ Untold(q, f, j) => Waits(q2, f, j)
  BY <1>1 DEF Untold, Waits
<1>7. e[2] = j /\ e[1] = "started" => Begins(q2, f, j)
  BY <1>1 DEF Begins
<1>8. QED
  BY <1>2, <1>3, <1>4, <1>5, <1>6, <1>7 DEF q2

-----------------------------------------------------------------------------
(* A message is shown.                                                      *)

Shown_(q, f) == IF Of(q, 1) = NoJob THEN f ELSE [f EXCEPT ![Of(q, 1)] = Append(@, Says(q, 1))]

LEMMA Receiving ==
  ASSUME NEW q, NEW f, Typed(q, f), q # <<>>
  PROVE  LET q2 == Tail(q)
             f2 == Shown_(q, f)
             h == Of(q, 1)
         IN /\ Len(q2) = Len(q) - 1 /\ Len(q) \in Nat /\ 1 \in 1..Len(q)
            /\ \A i \in 1..Len(q2) : Says(q2, i) = Says(q, i + 1) /\ Of(q2, i) = Of(q, i + 1)
                                     /\ i + 1 \in 1..Len(q)
            /\ \A k \in 1..Len(q) : k = 1 \/ (k - 1 \in 1..Len(q2) /\ k = (k - 1) + 1)
            /\ \A j \in Jobs : j # h => f2[j] = f[j]
            /\ h # NoJob => /\ h \in Jobs /\ Says(q, 1) \in Kinds
                            /\ f2[h] # <<>> /\ LastOf(f2[h]) = Says(q, 1)
                            /\ f[h] = <<>> => f2[h] = <<Says(q, 1)>>
<1> DEFINE q2 == Tail(q)
           f2 == Shown_(q, f)
           h == Of(q, 1)
<1>1. /\ Len(q2) = Len(q) - 1 /\ Len(q) \in Nat /\ 1 \in 1..Len(q)
      /\ \A i \in 1..Len(q2) : q2[i] = q[i + 1] /\ i + 1 \in 1..Len(q)
  BY TailIs DEF Typed
<1>2. \A k \in 1..Len(q) : k = 1 \/ (k - 1 \in 1..Len(q2) /\ k = (k - 1) + 1)
  BY <1>1
<1>3. \A i \in 1..Len(q2) : Says(q2, i) = Says(q, i + 1) /\ Of(q2, i) = Of(q, i + 1)
  BY <1>1 DEF Says, Of
<1>4. \A j \in Jobs : j # h => f2[j] = f[j]
  BY DEF Typed, Shown_
<1>5. ASSUME h # NoJob
      PROVE  /\ h \in Jobs /\ Says(q, 1) \in Kinds
             /\ f2[h] # <<>> /\ LastOf(f2[h]) = Says(q, 1)
             /\ f[h] = <<>> => f2[h] = <<Says(q, 1)>>
  <2>1. h \in Jobs /\ Says(q, 1) \in Kinds
    BY <1>1, <1>5 DEF Typed
  <2>2. f[h] \in Seq(Kinds)
    BY <2>1 DEF Typed
  <2>3. f2[h] = Append(f[h], Says(q, 1))
    BY <1>5, <2>1 DEF Typed, Shown_
  <2> HIDE DEF h, f2
  <2>4. f2[h] # <<>> /\ f2[h][Len(f[h]) + 1] = Says(q, 1) /\ Len(f2[h]) = Len(f[h]) + 1
    BY <2>1, <2>2, <2>3, AppendIs
  <2>5. f[h] = <<>> => f2[h] = <<Says(q, 1)>>
    BY <2>3
  <2>6. QED
    BY <2>1, <2>4, <2>5 DEF LastOf
<1>6. QED
  BY <1>1, <1>2, <1>3, <1>4, <1>5

\* The one that is shown may follow what was.
LEMMA HeadFits ==
  ASSUME NEW q, NEW f, Typed(q, f), Fits(q, f), q # <<>>, Of(q, 1) # NoJob
  PROVE  LET h == Of(q, 1)
             b == Says(q, 1)
         IN /\ h \in Jobs /\ b \in Kinds
            /\ b = "queued" => f[h] = <<>>
            /\ b = "started" => f[h] = <<"queued">>
            /\ b = "log" => Lives(f[h])
            /\ b = "ended" => f[h] = <<>> \/ Lives(f[h])
<1>1. 1 \in 1..Len(q) /\ \A k \in 1..Len(q) : ~(k < 1)
  BY Receiving
<1>2. Of(q, 1) \in Jobs /\ Says(q, 1) \in Kinds
  BY Receiving
<1>3. FitsAt(q, f, 1)
  BY <1>1 DEF Fits
<1>4. \A b : ~Before(q, 1, b)
  BY <1>1 DEF Before
<1>5. QED
  BY <1>2, <1>3, <1>4 DEF FitsAt, Pre

LEMMA ReceiveFits ==
  ASSUME NEW q, NEW f, Typed(q, f), Fits(q, f), q # <<>>
  PROVE  Fits(Tail(q), Shown_(q, f))
<1> DEFINE q2 == Tail(q)
           f2 == Shown_(q, f)
           h == Of(q, 1)
           b == Says(q, 1)
<1>1. /\ Len(q2) = Len(q) - 1 /\ Len(q) \in Nat /\ 1 \in 1..Len(q)
      /\ \A i \in 1..Len(q2) : Says(q2, i) = Says(q, i + 1) /\ Of(q2, i) = Of(q, i + 1)
                               /\ i + 1 \in 1..Len(q)
      /\ \A k \in 1..Len(q) : k = 1 \/ (k - 1 \in 1..Len(q2) /\ k = (k - 1) + 1)
      /\ \A j \in Jobs : j # h => f2[j] = f[j]
      /\ h # NoJob => /\ h \in Jobs /\ b \in Kinds
                      /\ f2[h] # <<>> /\ LastOf(f2[h]) = b
                      /\ f[h] = <<>> => f2[h] = <<b>>
  BY Receiving
<1>2. h # NoJob /\ b = "queued" => f[h] = <<>>
  BY HeadFits
<1> SUFFICES ASSUME NEW i \in 1..Len(q2), Of(q2, i) # NoJob PROVE FitsAt(q2, f2, i)
  BY DEF Fits
<1> DEFINE j == Of(q, i + 1)
<1>3. /\ Says(q2, i) = Says(q, i + 1) /\ Of(q2, i) = j /\ i + 1 \in 1..Len(q) /\ 1 < i + 1
      /\ j # NoJob /\ FitsAt(q, f, i + 1)
  BY <1>1 DEF Fits
<1>4. j \in Jobs
  BY <1>3 DEF Typed
<1> HIDE DEF q2, f2, h, b
<1>5. \A k \in 1..Len(q2) : k < i /\ Of(q2, k) = Of(q2, i) => Pre(Says(q2, k), Says(q2, i))
  <2> SUFFICES ASSUME NEW k \in 1..Len(q2), k < i, Of(q2, k) = Of(q2, i) PROVE Pre(Says(q2, k), Says(q2, i))
    OBVIOUS
  <2>1. k + 1 \in 1..Len(q) /\ k + 1 < i + 1 /\ Of(q, k + 1) = Of(q, i + 1) /\ Says(q2, k) = Says(q, k + 1)
    BY <1>1, <1>3
  <2>2. QED
    BY <1>3, <2>1 DEF FitsAt
<1>6. ASSUME NEW x, Before(q, i + 1, x) PROVE (j = h /\ b = x) \/ Before(q2, i, x)
  <2>1. PICK k \in 1..Len(q) : k < i + 1 /\ Of(q, k) = j /\ Says(q, k) = x
    BY <1>6 DEF Before
  <2>2. CASE k = 1
    BY <2>1, <2>2 DEF h, b
  <2>3. CASE k # 1
    <3>1. k - 1 \in 1..Len(q2) /\ k = (k - 1) + 1
      BY <1>1, <2>3
    <3>2. k - 1 < i /\ Of(q2, k - 1) = j /\ Says(q2, k - 1) = x
      BY <1>1, <2>1, <3>1
    <3>3. QED
      BY <1>3, <3>1, <3>2 DEF Before
  <2>4. QED
    BY <2>2, <2>3
<1>7. CASE j = h
  <2>1. Pre(b, Says(q, i + 1))
    BY <1>1, <1>3, <1>7 DEF FitsAt, h, b
  <2>2. b \in {"queued", "started", "log"} /\ (Says(q, i + 1) = "started" => b = "queued")
    BY <2>1 DEF Pre
  <2>3. f2[j] # <<>> /\ LastOf(f2[j]) = b /\ (b = "queued" => f[j] = <<>> /\ f2[j] = <<"queued">>)
    BY <1>1, <1>2, <1>3, <1>7
  <2>4. b \in {"started", "log"} => Lives(f2[j])
    BY <2>3 DEF Lives
  <2>5. Says(q, i + 1) = "log" => Lives(f2[j]) \/ Before(q2, i, "started")
    BY <1>3, <1>6, <2>2, <2>3, <2>4 DEF FitsAt, Lives
  <2>6. Says(q, i + 1) = "ended" => Lives(f2[j]) \/ Before(q2, i, "started")
    <3>1. ~IsFirst(q, i + 1)
      BY <1>1, <1>3, <1>7 DEF IsFirst, h
    <3>2. QED
      BY <1>3, <1>6, <2>2, <2>3, <2>4, <3>1 DEF FitsAt, Lives
  <2>7. QED
    BY <1>3, <1>5, <2>1, <2>2, <2>3, <2>5, <2>6 DEF FitsAt
<1>8. CASE j # h
  <2>1. f2[j] = f[j]
    BY <1>1, <1>4, <1>8
  <2>2. \A x : Before(q, i + 1, x) => Before(q2, i, x)
    BY <1>6, <1>8
  <2>3. IsFirst(q, i + 1) => IsFirst(q2, i)
    <3> SUFFICES ASSUME IsFirst(q, i + 1), NEW k \in 1..Len(q2), k < i PROVE Of(q2, k) # Of(q2, i)
      BY DEF IsFirst
    <3>1. k + 1 \in 1..Len(q) /\ k + 1 < i + 1 /\ Of(q2, k) = Of(q, k + 1)
      BY <1>1
    <3>2. QED
      BY <1>3, <3>1 DEF IsFirst
  <2>4. QED
    BY <1>3, <1>5, <2>1, <2>2, <2>3 DEF FitsAt
<1>9. QED
  BY <1>7, <1>8

\* What showing it does to what a job's renderer knows: nothing new.
LEMMA ReceiveTells ==
  ASSUME NEW q, NEW f, Typed(q, f), Fits(q, f), q # <<>>, NEW j \in Jobs
  PROVE  LET q2 == Tail(q)
             f2 == Shown_(q, f)
         IN /\ Untold(q, f, j) => Untold(q2, f2, j)
            /\ Waits(q, f, j) => Waits(q2, f2, j)
            /\ Begins(q, f, j) /\ ~Closed(q, f, j) => Begins(q2, f2, j)
            /\ Closed(q2, f2, j) => Closed(q, f, j)
<1> DEFINE q2 == Tail(q)
           f2 == Shown_(q, f)
           h == Of(q, 1)
           b == Says(q, 1)
<1>1. /\ Len(q2) = Len(q) - 1 /\ Len(q) \in Nat /\ 1 \in 1..Len(q)
      /\ \A i \in 1..Len(q2) : Says(q2, i) = Says(q, i + 1) /\ Of(q2, i) = Of(q, i + 1)
                               /\ i + 1 \in 1..Len(q)
      /\ \A k \in 1..Len(q) : k = 1 \/ (k - 1 \in 1..Len(q2) /\ k = (k - 1) + 1)
      /\ \A x \in Jobs : x # h => f2[x] = f[x]
      /\ h # NoJob => /\ h \in Jobs /\ b \in Kinds
                      /\ f2[h] # <<>> /\ LastOf(f2[h]) = b
                      /\ f[h] = <<>> => f2[h] = <<b>>
  BY Receiving
<1>2. h # NoJob => /\ b = "queued" => f[h] = <<>>
                   /\ b = "log" => Lives(f[h])
  BY HeadFits
<1>3. j # NoJob /\ (j = h => h # NoJob)
  BY JobsAssumption
<1>4. \A x : (\E i \in 1..Len(q) : Of(q, i) = j /\ Says(q, i) = x)
             => (j = h /\ b = x) \/ \E i \in 1..Len(q2) : Of(q2, i) = j /\ Says(q2, i) = x
  <2> SUFFICES ASSUME NEW x, NEW i \in 1..Len(q), Of(q, i) = j, Says(q, i) = x, i # 1
               PROVE  \E k \in 1..Len(q2) : Of(q2, k) = j /\ Says(q2, k) = x
    OBVIOUS
  <2>1. i - 1 \in 1..Len(q2) /\ i = (i - 1) + 1
    BY <1>1
  <2>2. Of(q2, i - 1) = j /\ Says(q2, i - 1) = x
    BY <1>1, <2>1
  <2>3. QED
    BY <2>1, <2>2
<1> HIDE DEF q2, f2, h, b
<1>5. Untold(q, f, j) => Untold(q2, f2, j)
  <2> SUFFICES ASSUME Untold(q, f, j) PROVE Untold(q2, f2, j)
    OBVIOUS
  <2>1. j # h
    BY <1>1 DEF Untold, h
  <2>2. QED
    BY <1>1, <2>1 DEF Untold
<1>6. Waits(q, f, j) => Waits(q2, f2, j)
  <2> SUFFICES ASSUME Waits(q, f, j) PROVE Waits(q2, f2, j)
    OBVIOUS
  <2>1. \A i \in 1..Len(q2) : Of(q2, i) = j => Says(q2, i) = "queued"
    BY <1>1 DEF Waits
  <2>2. CASE j = h
    <3>1. b = "queued"
      BY <1>1, <2>2 DEF Waits, h, b
    <3>2. f2[j] = <<"queued">>
      BY <1>1, <1>2, <1>3, <2>2, <3>1
    <3>3. QED
      BY <2>1, <3>2 DEF Waits
  <2>3. CASE j # h
    <3>1. f2[j] = f[j]
      BY <1>1, <2>3
    <3>2. QED
      BY <1>4, <2>1, <2>3, <3>1 DEF Waits
  <2>4. QED
    BY <2>2, <2>3
<1>7. Begins(q, f, j) /\ ~Closed(q, f, j) => Begins(q2, f2, j)
  <2> SUFFICES ASSUME Begins(q, f, j), ~Closed(q, f, j) PROVE Begins(q2, f2, j)
    OBVIOUS
  <2>1. CASE j = h
    <3>1. b \in Kinds /\ b # "ended"
      BY <1>1, <1>3, <2>1 DEF Closed, h, b
    <3>2. CASE b = "queued"
      <4>1. ~Lives(f[j])
        BY <1>2, <1>3, <2>1, <3>2 DEF Lives
      <4>2. QED
        BY <1>4, <3>2, <4>1 DEF Begins
    <3>3. CASE b \in {"started", "log"}
      <4>1. Lives(f2[j])
        BY <1>1, <1>3, <2>1, <3>3 DEF Lives
      <4>2. QED
        BY <4>1 DEF Begins
    <3>4. QED
      BY <3>1, <3>2, <3>3 DEF Kinds
  <2>2. CASE j # h
    <3>1. f2[j] = f[j]
      BY <1>1, <2>2
    <3>2. QED
      BY <1>4, <2>2, <3>1 DEF Begins
  <2>3. QED
    BY <2>1, <2>2
<1>8. Closed(q2, f2, j) => Closed(q, f, j)
  <2> SUFFICES ASSUME Closed(q2, f2, j) PROVE Closed(q, f, j)
    OBVIOUS
  <2>1. CASE f2[j] # <<>> /\ LastOf(f2[j]) = "ended"
    <3>1. CASE j = h
      <4>1. Of(q, 1) = j /\ Says(q, 1) = "ended"
        BY <1>1, <1>3, <2>1, <3>1 DEF h, b
      <4>2. QED
        BY <1>1, <4>1 DEF Closed
    <3>2. CASE j # h
      BY <1>1, <2>1, <3>2 DEF Closed
    <3>3. QED
      BY <3>1, <3>2
  <2>2. CASE \E i \in 1..Len(q2) : Of(q2, i) = j /\ Says(q2, i) = "ended"
    BY <1>1, <2>2 DEF Closed
  <2>3. QED
    BY <2>1, <2>2 DEF Closed
<1>9. QED
  BY <1>5, <1>6, <1>7, <1>8 DEF q2, f2

-----------------------------------------------------------------------------
(* The steps that send and receive nothing.                                 *)

\* The watcher stays where it is, leaves, or goes from a place where it
\* announces nobody to another.
LEMMA QuietTold ==
  ASSUME VInv, Told, UNCHANGED <<queue, feed, streaming, ended>>,
         \A j \in Jobs : stream'[j] \in {stream[j], "finished"} \/ stream[j] = "open",
         \/ UNCHANGED <<watch, current>>
         \/ watch' \in {"gone", "canceling"}
         \/ ~Announcing /\ watch' \notin {"queue", "start", "spawn"} /\ Watching
  PROVE  Told'
<1>1. \A j \in Jobs : j \notin streaming' /\ j \notin ended' => Untold(queue', feed', j)
  BY DEF Told
<1>2. /\ watch' = "queue" => Untold(queue', feed', current')
      /\ watch' = "start" => Waits(queue', feed', current')
      /\ watch' = "spawn" => Begins(queue', feed', current')
  BY DEF Told
<1>3. ASSUME NEW j \in streaming', j \notin ended', Watching', ~(Announcing' /\ current' = j)
      PROVE  Begins(queue', feed', j)
  <2>1. Watching /\ ~(Announcing /\ current = j)
    BY <1>3 DEF Watching, Announcing
  <2>2. QED
    BY <1>3, <2>1 DEF Told
<1>4. \A j \in Jobs : stream'[j] \in {"open", "expired"} => Begins(queue', feed', j)
  BY DEF Told
<1>5. \A j \in Jobs : Closed(queue', feed', j) => j \in ended'
  BY DEF Told
<1>6. QED
  BY <1>1, <1>2, <1>3, <1>4, <1>5 DEF Told

LEMMA ExamineTold ==
  ASSUME VInv, Told, Examine
  PROVE  Told'
<1>1. /\ watch = "jobs" /\ UNCHANGED <<queue, feed, stream, ended>>
  BY DEF Examine, streamVars, viewVars
<1>2. CASE UNCHANGED <<streaming, current, watch>>
  BY <1>1, <1>2, QuietTold
<1>3. CASE ~UNCHANGED <<streaming, current, watch>>
  <2>1. PICK h : /\ h = Head(todo) /\ h \notin streaming /\ streaming' = streaming \union {h}
                 /\ current' = h /\ watch' = "queue" /\ todo # <<>>
    BY <1>3 DEF Examine
  <2>2. h \in Jobs
    BY <2>1, TailIs DEF VInv, Shape
  <2>3. ended = {}
    BY <1>1 DEF VInv, PlaceOK
  <2>4. Untold(queue, feed, h)
    BY <2>1, <2>2, <2>3 DEF Told
  <2>5. ASSUME NEW j \in streaming', j \notin ended', ~(Announcing' /\ current' = j)
        PROVE  Begins(queue', feed', j)
    <3>1. j \in streaming
      BY <2>1, <2>5 DEF Announcing
    <3>2. QED
      BY <1>1, <2>5, <3>1 DEF Told, Watching, Announcing
  <2>6. QED
    BY <1>1, <2>1, <2>4, <2>5 DEF Told
<1>4. QED
  BY <1>2, <1>3

LEMMA SpawnTold ==
  ASSUME VInv, Told, SpawnStream
  PROVE  Told'
<1>1. /\ watch = "spawn" /\ watch' = "jobs" /\ current' = NoJob
      /\ UNCHANGED <<queue, feed, streaming, ended>>
  BY DEF SpawnStream, viewVars
<1>2. current \in Jobs /\ current \in streaming
  BY <1>1 DEF VInv, PlaceOK
<1>3. Begins(queue, feed, current)
  BY <1>1 DEF Told
<1>4. \A j \in Jobs : j # current => stream'[j] = stream[j]
  BY DEF SpawnStream, Connects, VInv, Shape
<1>5. \A j \in Jobs : stream'[j] \in {"open", "expired"} => Begins(queue', feed', j)
  BY <1>1, <1>3, <1>4 DEF Told
<1>6. ASSUME NEW j \in streaming', j \notin ended' PROVE Begins(queue', feed', j)
  <2>1. CASE j = current
    BY <1>1, <1>3, <2>1
  <2>2. CASE j # current
    BY <1>1, <1>6, <2>2 DEF Told, Watching
  <2>3. QED
    BY <2>1, <2>2
<1>7. QED
  BY <1>1, <1>5, <1>6 DEF Told

LEMMA StopTold ==
  ASSUME VInv, Told, NEW j \in Jobs, NEW why, StreamStops(j, why)
  PROVE  Told'
<1>1. UNCHANGED <<queue, feed, streaming, ended, watch, current>>
  BY DEF StreamStops, pollVars, viewVars
<1>2. \A k \in Jobs : stream'[k] \in {stream[k], "finished"}
  BY DEF StreamStops, VInv, Shape
<1>3. QED
  BY <1>1, <1>2, QuietTold

LEMMA ExpiryTold ==
  ASSUME VInv, Told, NEW j \in Jobs, StreamExpires(j)
  PROVE  Told'
<1>1. UNCHANGED <<queue, feed, streaming, ended, watch, current>>
  BY DEF StreamExpires, pollVars, viewVars
<1>2. \A k \in Jobs : stream'[k] = stream[k] \/ stream[k] = "open"
  BY DEF StreamExpires, VInv, Shape
<1>3. QED
  BY <1>1, <1>2, QuietTold

LEMMA SilentTold ==
  ASSUME VInv, Told, Silent, renderer = "on", renderer' = "on"
  PROVE  Told'
<1>1. CASE RequestFails
  BY <1>1, QuietTold DEF RequestFails, Leave, pollVars, viewVars
<1>2. CASE NobodyListens
  BY <1>2 DEF NobodyListens, Open
<1>3. CASE Mint
  BY <1>3, QuietTold DEF Mint, Announcing, Watching, streamVars, viewVars
<1>4. CASE ListJobs
  BY <1>4, QuietTold DEF ListJobs, Announcing, Watching, streamVars, viewVars
<1>5. CASE GetBuild
  BY <1>5, QuietTold DEF GetBuild, Announcing, Watching, pollVars, streamVars, viewVars
<1>6. CASE Drain
  BY <1>6, QuietTold DEF Drain, Announcing, Watching, pollVars, streamVars, viewVars
<1>7. CASE Relist
  BY <1>7, QuietTold DEF Relist, Announcing, Watching, streamVars, viewVars
<1>8. CASE Sweep /\ UNCHANGED queue
  <2>1. UNCHANGED <<feed, streaming, watch, current, stream>>
    BY <1>8 DEF Sweep, streamVars, viewVars
  <2>2. UNCHANGED ended
    BY <1>8, SilentSweepEnds
  <2>3. \A j \in Jobs : stream'[j] \in {stream[j], "finished"}
    BY <2>1
  <2>4. QED
    BY <1>8, <2>1, <2>2, <2>3, QuietTold
<1>9. CASE BuildEnd /\ ~Open
  BY <1>9 DEF Open
<1>10. CASE \E j \in Jobs : StreamExpires(j) \/ StreamDone(j) \/ StreamBreaks(j) \/ StreamUnheard(j)
                            \/ StreamAborted(j)
  BY <1>10, ExpiryTold, StopTold DEF StreamDone, StreamBreaks, StreamUnheard, StreamAborted
<1>11. CASE CtrlC
  BY <1>11, QuietTold DEF CtrlC, pollVars, streamVars, viewVars
<1>12. CASE Cancelled
  BY <1>12, QuietTold DEF Cancelled, pollVars, viewVars
<1>13. CASE CancelBuild
  BY <1>13, QuietTold DEF CancelBuild, pollVars, streamVars, viewVars
<1>14. CASE FeedCloses
  BY <1>14 DEF FeedCloses
<1>15. QED
  BY <1>1, <1>2, <1>3, <1>4, <1>5, <1>6, <1>7, <1>8, <1>9, <1>10, <1>11, <1>12, <1>13, <1>14,
     ExamineTold, SpawnTold DEF Silent, Backend

-----------------------------------------------------------------------------
(* The steps that send.                                                     *)

\* Of a job that is not closed, only what may come before its end was said.
LEMMA NotClosed ==
  ASSUME VInv, NEW j \in Jobs, ~Closed(queue, feed, j)
  PROVE  /\ \A k \in 1..Len(queue) : Of(queue, k) = j => Says(queue, k) \in {"queued", "started", "log"}
         /\ feed[j] # <<>> => LastOf(feed[j]) \in {"queued", "started", "log"}
<1>1. Typed(queue, feed) /\ j # NoJob
  BY IsTyped, JobsAssumption
<1>2. \A k \in 1..Len(queue) : Of(queue, k) = j => Says(queue, k) \in Kinds
  BY <1>1 DEF Typed
<1>3. feed[j] # <<>> => LastOf(feed[j]) \in Kinds
  <2>1. feed[j] \in Seq(Kinds)
    BY <1>1 DEF Typed
  <2>2. feed[j] # <<>> => Len(feed[j]) \in 1..Len(feed[j])
    BY <2>1, TailIs
  <2>3. QED
    BY <2>1, <2>2 DEF LastOf
<1>4. QED
  BY <1>2, <1>3 DEF Closed, Kinds

LEMMA AnnounceTold ==
  ASSUME VInv, Fits(queue, feed), Told, BuildStart \/ StepQueued \/ StepStart
  PROVE  Fits(queue', feed') /\ Told'
<1> DEFINE e == Event
<1>1. /\ e \in Msgs /\ queue' = Append(queue, e) /\ feed' = feed
      /\ UNCHANGED <<streaming, ended, current, stream>>
  BY AnnounceV DEF Send, BuildStart, StepQueued, StepStart, pollVars, streamVars
<1>2. Typed(queue, feed) /\ ended = {}
  BY IsTyped DEF VInv, PlaceOK, BuildStart, StepQueued, StepStart
<1>3. watch \in {"queue", "start"} => current \in Jobs /\ current \in streaming /\ current # NoJob
  BY JobsAssumption DEF VInv, PlaceOK
<1>4. CASE watch = "open" /\ watch' = "list" /\ e[2] = NoJob /\ e[1] = "buildstart"
  <2>1. Fits(queue', feed')
    BY <1>1, <1>2, <1>4, SendFits
  <2>2. \A j \in Jobs : /\ Untold(queue, feed, j) => Untold(queue', feed', j)
                        /\ Begins(queue, feed, j) => Begins(queue', feed', j)
                        /\ Closed(queue', feed', j) => Closed(queue, feed, j)
    BY <1>1, <1>2, <1>4, SendTells, JobsAssumption
  <2>3. streaming \subseteq Jobs
    BY DEF VInv, Shape
  <2>4. QED
    BY <1>1, <1>4, <2>1, <2>2, <2>3 DEF Told, Watching, Announcing
<1>5. CASE watch = "queue" /\ watch' = "start" /\ e[2] = current /\ e[1] = "queued"
  <2>1. Untold(queue, feed, current)
    BY <1>5 DEF Told
  <2>2. Fits(queue', feed')
    BY <1>1, <1>2, <1>5, <2>1, SendFits DEF Untold
  <2>3. \A j \in Jobs : /\ j # current /\ Untold(queue, feed, j) => Untold(queue', feed', j)
                        /\ Begins(queue, feed, j) => Begins(queue', feed', j)
                        /\ Closed(queue', feed', j) => Closed(queue, feed, j)
    BY <1>1, <1>2, <1>5, SendTells
  <2>4. Waits(queue', feed', current)
    BY <1>1, <1>2, <1>5, <2>1, SendTells
  <2>5. streaming \subseteq Jobs
    BY DEF VInv, Shape
  <2>6. QED
    BY <1>1, <1>3, <1>5, <2>2, <2>3, <2>4, <2>5 DEF Told, Watching, Announcing
<1>6. CASE watch = "start" /\ watch' = "spawn" /\ e[2] = current /\ e[1] = "started"
  <2>1. Waits(queue, feed, current)
    BY <1>6 DEF Told
  <2>2. /\ \A k \in 1..Len(queue) : Of(queue, k) = current => Pre(Says(queue, k), "started")
        /\ feed[current] # <<>> => Pre(LastOf(feed[current]), "started")
    BY <2>1 DEF Waits, Pre, LastOf
  <2>3. Fits(queue', feed')
    BY <1>1, <1>2, <1>6, <2>1, <2>2, SendFits
  <2>4. \A j \in Jobs : /\ j # current /\ Untold(queue, feed, j) => Untold(queue', feed', j)
                        /\ Begins(queue, feed, j) => Begins(queue', feed', j)
                        /\ Closed(queue', feed', j) => Closed(queue, feed, j)
    BY <1>1, <1>2, <1>6, SendTells
  <2>5. Begins(queue', feed', current)
    BY <1>1, <1>2, <1>6, SendTells
  <2>6. streaming \subseteq Jobs
    BY DEF VInv, Shape
  <2>7. QED
    BY <1>1, <1>3, <1>6, <2>3, <2>4, <2>5, <2>6 DEF Told, Watching, Announcing
<1>7. QED
  BY <1>4, <1>5, <1>6 DEF BuildStart, StepQueued, StepStart, Event

LEMMA LogTold ==
  ASSUME VInv, Fits(queue, feed), Told, NEW j \in Jobs, StreamLine(j) \/ Notice(j)
  PROVE  Fits(queue', feed') /\ Told'
<1> DEFINE e == <<"log", j>>
<1>1. /\ queue' = Append(queue, e) /\ stream[j] \in {"open", "expired"}
      /\ UNCHANGED <<feed, watch, current, streaming, ended>>
      /\ \A k \in Jobs : stream'[k] \in {stream[k], "finished"}
  BY LogV DEF Send
<1>2. e \in Msgs /\ e[1] = "log" /\ e[2] = j /\ Typed(queue, feed) /\ j # NoJob
  BY IsTyped, MsgIs, JobsAssumption DEF Kinds
<1> HIDE DEF e
<1>3. ended = {}
  BY <1>1 DEF VInv, PlaceOK, StreamGone
<1>4. Begins(queue, feed, j) /\ ~Closed(queue, feed, j) /\ j \in streaming
  BY <1>1, <1>3 DEF Told, VInv, PlaceOK
<1>5. Fits(queue', feed')
  <2>1. /\ \A k \in 1..Len(queue) : Of(queue, k) = j => Pre(Says(queue, k), "log")
        /\ feed[j] # <<>> => Pre(LastOf(feed[j]), "log")
    BY <1>4, NotClosed DEF Pre
  <2>2. QED
    BY <1>1, <1>2, <1>4, <2>1, SendFits
<1>6. \A k \in Jobs : /\ k # j /\ Untold(queue, feed, k) => Untold(queue', feed', k)
                      /\ k # j /\ Waits(queue, feed, k) => Waits(queue', feed', k)
                      /\ Begins(queue, feed, k) => Begins(queue', feed', k)
                      /\ Closed(queue', feed', k) => Closed(queue, feed, k)
  BY <1>1, <1>2, SendTells
<1>7. Announcing => current # j /\ current \in Jobs
  BY <1>1 DEF VInv, PlaceOK, Announcing
<1>8. streaming \subseteq Jobs
  BY DEF VInv, Shape
<1>9. /\ watch' = "queue" => Untold(queue', feed', current')
      /\ watch' = "start" => Waits(queue', feed', current')
      /\ watch' = "spawn" => Begins(queue', feed', current')
  BY <1>1, <1>6, <1>7 DEF Told, Announcing
<1>10. \A k \in Jobs : k \notin streaming' /\ k \notin ended' => Untold(queue', feed', k)
  BY <1>1, <1>4, <1>6 DEF Told
<1>11. \A k \in streaming' :
         k \notin ended' /\ Watching' /\ ~(Announcing' /\ current' = k) => Begins(queue', feed', k)
  BY <1>1, <1>6, <1>8 DEF Told, Watching, Announcing
<1>12. /\ \A k \in Jobs : stream'[k] \in {"open", "expired"} => Begins(queue', feed', k)
       /\ \A k \in Jobs : Closed(queue', feed', k) => k \in ended'
  BY <1>1, <1>6 DEF Told
<1>13. QED
  BY <1>5, <1>9, <1>10, <1>11, <1>12 DEF Told

LEMMA SweepTold ==
  ASSUME VInv, Fits(queue, feed), Told, Sweep, ~UNCHANGED queue
  PROVE  Fits(queue', feed') /\ Told'
<1>1. PICK j \in Jobs, c \in Codes :
        /\ UNCHANGED <<feed, watch, stream, current, streaming, renderer>>
        /\ watch = "sweep" /\ j \notin ended /\ ended' = ended \cup {j} /\ Send(<<"ended", j, c>>)
  BY SweepV
<1> DEFINE e == <<"ended", j, c>>
<1>2. /\ queue' = Append(queue, e) /\ e \in Msgs /\ e[1] = "ended" /\ e[2] = j
      /\ Typed(queue, feed) /\ j # NoJob
  BY <1>1, IsTyped, MsgIs, JobsAssumption DEF Kinds, Send
<1> HIDE DEF e
<1>3. ~Closed(queue, feed, j) /\ (Begins(queue, feed, j) \/ Untold(queue, feed, j))
  BY <1>1 DEF Told, Watching, Announcing
<1>4. Fits(queue', feed')
  <2>1. /\ \A k \in 1..Len(queue) : Of(queue, k) = j => Pre(Says(queue, k), "ended")
        /\ feed[j] # <<>> => Pre(LastOf(feed[j]), "ended")
    BY <1>3, NotClosed DEF Pre
  <2>2. e[2] # NoJob =>
          /\ \A k \in 1..Len(queue) : Of(queue, k) = e[2] => Pre(Says(queue, k), e[1])
          /\ feed[e[2]] # <<>> => Pre(LastOf(feed[e[2]]), e[1])
          /\ e[1] = "started" => Waits(queue, feed, e[2])
          /\ e[1] = "log" => Begins(queue, feed, e[2])
          /\ e[1] = "ended" => Begins(queue, feed, e[2]) \/ Untold(queue, feed, e[2])
    BY <1>2, <1>3, <2>1
  <2>3. Fits(Append(queue, e), feed)
    BY <1>2, <2>2, SendFits
  <2>4. QED
    BY <1>1, <1>2, <2>3
<1>5. \A k \in Jobs : /\ k # j /\ Untold(queue, feed, k) => Untold(queue', feed', k)
                      /\ Begins(queue, feed, k) => Begins(queue', feed', k)
                      /\ Closed(queue', feed', k) => Closed(queue, feed, k) \/ k = j
  BY <1>1, <1>2, SendTells
<1>6. streaming \subseteq Jobs
  BY DEF VInv, Shape
<1>7. /\ \A k \in Jobs : k \notin streaming' /\ k \notin ended' => Untold(queue', feed', k)
      /\ \A k \in streaming' : k \notin ended' => Begins(queue', feed', k)
  BY <1>1, <1>5, <1>6 DEF Told, Watching, Announcing
<1>8. /\ \A k \in Jobs : stream'[k] \in {"open", "expired"} => Begins(queue', feed', k)
      /\ \A k \in Jobs : Closed(queue', feed', k) => k \in ended'
  BY <1>1, <1>5 DEF Told
<1>9. QED
  BY <1>1, <1>4, <1>7, <1>8 DEF Told

LEMMA EndTold ==
  ASSUME VInv, Fits(queue, feed), Told, BuildEnd, Open
  PROVE  Fits(queue', feed') /\ Told'
<1>1. PICK c \in Codes :
        /\ Send(<<"over", NoJob, c>>) /\ watch' = "gone"
        /\ UNCHANGED <<feed, stream, current, streaming, ended, renderer>>
  BY EndV
<1> DEFINE e == <<"over", NoJob, c>>
<1>2. /\ queue' = Append(queue, e) /\ e \in Msgs /\ e[1] = "over" /\ e[2] = NoJob /\ Typed(queue, feed)
  BY <1>1, IsTyped, MsgIs DEF Quiet, Send
<1> HIDE DEF e
<1>3. Fits(queue', feed')
  BY <1>1, <1>2, SendFits
<1>4. \A k \in Jobs : /\ Untold(queue, feed, k) => Untold(queue', feed', k)
                      /\ Begins(queue, feed, k) => Begins(queue', feed', k)
                      /\ Closed(queue', feed', k) => Closed(queue, feed, k)
  BY <1>1, <1>2, SendTells, JobsAssumption
<1>5. QED
  BY <1>1, <1>3, <1>4 DEF Told, Watching

-----------------------------------------------------------------------------
(* The renderer's steps.                                                    *)

LEMMA ReceiveTold ==
  ASSUME VInv, Fits(queue, feed), Told, Receive, Says(queue, 1) # "over"
  PROVE  Fits(queue', feed') /\ Told'
<1>1. /\ queue # <<>> /\ queue' = Tail(queue) /\ feed' = Shown_(queue, feed)
      /\ UNCHANGED <<watch, stream, current, streaming, ended>> /\ Typed(queue, feed)
  BY ReceiveV, IsTyped DEF Kind, About, Says, Of, Shown_
<1>2. Fits(queue', feed')
  BY <1>1, ReceiveFits
<1>3. \A j \in Jobs : /\ Untold(queue, feed, j) => Untold(queue', feed', j)
                      /\ Waits(queue, feed, j) => Waits(queue', feed', j)
                      /\ Begins(queue, feed, j) /\ ~Closed(queue, feed, j) => Begins(queue', feed', j)
                      /\ Closed(queue', feed', j) => Closed(queue, feed, j)
  BY <1>1, ReceiveTells
<1>4. Announcing => current \in Jobs /\ ended = {}
  BY DEF VInv, PlaceOK, Announcing
<1>5. /\ watch' = "queue" => Untold(queue', feed', current')
      /\ watch' = "start" => Waits(queue', feed', current')
      /\ watch' = "spawn" => Begins(queue', feed', current')
  BY <1>1, <1>3, <1>4 DEF Told, Announcing
<1>6. streaming \subseteq Jobs
  BY DEF VInv, Shape
<1>7. \A j \in streaming' :
        j \notin ended' /\ Watching' /\ ~(Announcing' /\ current' = j) => Begins(queue', feed', j)
  BY <1>1, <1>3, <1>6 DEF Told, Watching, Announcing
<1>8. \A j \in Jobs : stream[j] \in {"open", "expired"} => ended = {}
  BY DEF VInv, PlaceOK, StreamGone
<1>9. \A j \in Jobs : stream'[j] \in {"open", "expired"} => Begins(queue', feed', j)
  BY <1>1, <1>3, <1>8 DEF Told
<1>10. /\ \A j \in Jobs : j \notin streaming' /\ j \notin ended' => Untold(queue', feed', j)
       /\ \A j \in Jobs : Closed(queue', feed', j) => j \in ended'
  BY <1>1, <1>3 DEF Told
<1>11. QED
  BY <1>2, <1>5, <1>7, <1>9, <1>10 DEF Told

-----------------------------------------------------------------------------
(* The invariant and the refinement.                                        *)

LEMMA InitFeed == Init => FInv
<1> SUFFICES ASSUME Init PROVE FInv
  OBVIOUS
<1>1. VInv
  BY InitV
<1>2. /\ watch = "mint" /\ streaming = {} /\ ended = {}
      /\ \A j \in Jobs : feed[j] = <<>> /\ stream[j] = "none"
  BY DEF Init
<1>3. \A i \in 1..Len(queue) : Of(queue, i) = NoJob
  BY MsgIs DEF Init, Of, Quiet
<1>4. Fits(queue, feed)
  BY <1>3 DEF Fits
<1>5. \A j \in Jobs : Untold(queue, feed, j) /\ ~Closed(queue, feed, j)
  BY <1>2, <1>3, JobsAssumption DEF Untold, Closed
<1>6. QED
  BY <1>1, <1>2, <1>4, <1>5 DEF FInv, Told

LEMMA NextFeed == FInv /\ [Next]_vars => FInv'
<1> SUFFICES ASSUME FInv, [Next]_vars, renderer' = "on" PROVE Fits(queue', feed') /\ Told'
  BY NextV DEF FInv
<1>1. CASE UNCHANGED vars
  <2>1. UNCHANGED <<queue, feed, watch, stream, current, streaming, ended, renderer>>
    BY <1>1 DEF vars, pollVars, streamVars, viewVars
  <2>2. \A j \in Jobs : stream'[j] \in {stream[j], "finished"}
    BY <2>1
  <2>3. QED
    BY <2>1, <2>2, QuietTold DEF FInv
<1>2. CASE Next
  <2>1. CASE Silent
    <3>1. UNCHANGED <<queue, feed>>
      BY <2>1, SilentV DEF FInv
    <3>2. renderer = "on"
      BY <2>1 DEF Silent, Backend, RequestFails, NobodyListens, Mint, ListJobs, Examine, SpawnStream, GetBuild,
                  Drain, Relist, Sweep, BuildEnd, StreamDone, StreamBreaks, StreamUnheard, StreamAborted,
                  StreamStops, StreamExpires, CtrlC, Cancelled, CancelBuild, FeedCloses, Open, viewVars
    <3>3. QED
      BY <2>1, <3>1, <3>2, SilentTold DEF FInv
  <2>2. CASE BuildStart \/ StepQueued \/ StepStart
    BY <2>2, AnnounceTold DEF FInv, BuildStart, StepQueued, StepStart, Send, Open
  <2>3. CASE Sweep /\ ~UNCHANGED queue
    <3>1. renderer = "on"
      BY <2>3 DEF Sweep, viewVars
    <3>2. QED
      BY <2>3, <3>1, SweepTold DEF FInv
  <2>4. CASE BuildEnd /\ Open
    BY <2>4, EndTold DEF FInv, Open
  <2>5. CASE \E j \in Jobs : StreamLine(j) \/ Notice(j)
    <3>1. renderer = "on"
      BY <2>5 DEF StreamLine, Notice, viewVars
    <3>2. QED
      BY <2>5, <3>1, LogTold DEF FInv
  <2>6. CASE Receive
    <3>1. renderer = "on" /\ Says(queue, 1) # "over"
      BY <2>6, ReceiveV DEF FInv, Kind, Says
    <3>2. QED
      BY <2>6, <3>1, ReceiveTold DEF FInv
  <2>7. CASE RendererDies
    BY <2>7 DEF RendererDies
  <2>8. QED
    BY <1>2, <2>1, <2>2, <2>3, <2>4, <2>5, <2>6, <2>7, Steps DEF FInv
<1>3. QED
  BY <1>1, <1>2

\* What is shown of a job follows what was shown before.
LEMMA ReceiveShows ==
  ASSUME FInv, Receive
  PROVE  [Feed!Next]_Feed!vars
<1>1. renderer = "on" /\ VInv /\ Fits(queue, feed) /\ queue # <<>> /\ codes = <<>> /\ Typed(queue, feed)
  BY ReceiveV, IsTyped DEF FInv, VInv, VerdictOK
<1>2. CASE Says(queue, 1) = "over"
  <2>1. UNCHANGED feed /\ codes' # <<>>
    BY <1>1, <1>2, ReceiveV DEF Kind, Says
  <2>2. Feed!Close
    BY <1>1, <2>1 DEF Feed!Close
  <2>3. QED
    BY <2>2 DEF Feed!Next
<1>3. CASE Says(queue, 1) # "over"
  <2> DEFINE h == Of(queue, 1)
             b == Says(queue, 1)
  <2>1. UNCHANGED codes /\ feed' = IF h = NoJob THEN feed ELSE [feed EXCEPT ![h] = Append(@, b)]
    BY <1>1, <1>3, ReceiveV DEF Kind, About, Says, Of
  <2>2. CASE h = NoJob
    BY <2>1, <2>2 DEF Feed!vars
  <2>3. CASE h # NoJob
    <3>1. /\ h \in Jobs /\ b \in Kinds
          /\ b = "queued" => feed[h] = <<>>
          /\ b = "started" => feed[h] = <<"queued">>
          /\ b = "log" => Lives(feed[h])
          /\ b = "ended" => feed[h] = <<>> \/ Lives(feed[h])
      BY <1>1, <2>3, HeadFits
    <3> HIDE DEF h, b
    <3>2. Feed!Show(h, b)
      BY <1>1, <2>1, <2>3 DEF Feed!Show
    <3>3. Feed!Queue(h) \/ Feed!Start(h) \/ Feed!Log(h) \/ Feed!End(h)
      BY <3>1, <3>2 DEF Kinds, Lives, LastOf, Feed!Queue, Feed!Start, Feed!Log, Feed!End, Feed!Fresh, Feed!Running
    <3>4. QED
      BY <3>1, <3>3 DEF Feed!Next
  <2>4. QED
    BY <2>2, <2>3
<1>4. QED
  BY <1>2, <1>3

LEMMA StepShows == FInv /\ [Next]_vars => [Feed!Next]_Feed!vars
<1> SUFFICES ASSUME FInv, [Next]_vars PROVE [Feed!Next]_Feed!vars
  OBVIOUS
<1>1. CASE Receive
  BY <1>1, ReceiveShows
<1>2. CASE UNCHANGED <<feed, codes>>
  BY <1>2 DEF Feed!vars
<1>3. Next /\ ~Receive => UNCHANGED codes
  BY DEF Next, Watcher, Streams, Backend, Renderer, RequestFails, NobodyListens, Mint, BuildStart, ListJobs,
         Examine, StepQueued, StepStart, SpawnStream, GetBuild, Drain, Relist, Sweep, BuildEnd, StreamLine,
         Notice, StreamDone, StreamBreaks, StreamUnheard, StreamAborted, StreamStops, StreamExpires, CtrlC, Cancelled,
         CancelBuild, FeedCloses, RendererDies, viewVars
<1>4. Next /\ ~Receive => UNCHANGED feed
  BY DEF Next, Watcher, Streams, Backend, Renderer, RequestFails, NobodyListens, Mint, BuildStart, ListJobs,
         Examine, StepQueued, StepStart, SpawnStream, GetBuild, Drain, Relist, Sweep, BuildEnd, StreamLine,
         Notice, StreamDone, StreamBreaks, StreamUnheard, StreamAborted, StreamStops, StreamExpires, CtrlC, Cancelled,
         CancelBuild, FeedCloses, RendererDies, viewVars
<1>5. UNCHANGED vars => UNCHANGED <<feed, codes>>
  BY DEF vars, viewVars
<1>6. QED
  BY <1>1, <1>2, <1>3, <1>4, <1>5

\* The watch of a cloud build implements the abstract feed: a job's lines are
\* shown only between its start and its end, it is closed at most once, and
\* nothing comes after the build's end.
THEOREM FeedImplements == Spec => FeedsRenderer
<1>1. Init => FInv /\ Feed!Init
  BY InitFeed DEF Init, Feed!Init
<1>2. FInv /\ [Next]_vars => FInv' /\ [Feed!Next]_Feed!vars
  BY NextFeed, StepShows
<1>3. QED
  BY <1>1, <1>2, PTL DEF Spec, FeedsRenderer, Feed!Spec


-----------------------------------------------------------------------------
(* The feed is whole.                                                       *)

Listed == {Listing[i] : i \in 1..Len(Listing)}
Expiries == {"refused", "expired"}

FullShape ==
  /\ seen \in [Jobs -> DOMAIN Later] /\ token \in {"fresh", "old"}
  /\ sent \in [Jobs -> 0..Lines]
  /\ lost \in [Jobs -> {"no", "broken"} \cup Expiries]
  /\ Len(queue) <= Capacity
  /\ codes = <<>> \/ Len(codes) = 1
  /\ todo \in Seq(Listed) /\ streaming \subseteq Listed

\* A job that was announced has a stream once the watcher goes on; a stream that
\* ended without a loss sent all lines.
StreamsOK ==
  /\ \A j \in streaming : stream[j] # "none" \/ ~Watching \/ (Announcing /\ current = j)
  /\ \A j \in Jobs : stream[j] = "finished" /\ lost[j] = "no" => sent[j] = Lines
  /\ \A j \in Jobs : stream[j] = "expired" => lost[j] \in Expiries
  /\ \A j \in Jobs : stream[j] \in {"none", "open"} => lost[j] = "no"
  /\ RefusalHasCause

\* A job of a settled build that is not closed is a canceled build's.
Lingers(j) == build = "canceled" /\ seen[j] = "running"
SweepOK ==
  watch = "sweep" /\ ~unlisted =>
    /\ \A j \in Jobs : seen[j] \in JobTerminal \/ Lingers(j)
    /\ \A j \in streaming : j \in ended \/ Lingers(j) \/ \E i \in 1..Len(todo) : todo[i] = j

\* The build's end was sent.
OverSent == codes # <<>> \/ \E i \in 1..Len(queue) : Kind(i) = "over"
OverOK ==
  /\ \A i \in 1..Len(queue) : Kind(i) = "over" => i = Len(queue)
  /\ OverSent =>
       /\ watch = "gone"
       /\ \A j \in Jobs : StreamGone(j)
       /\ \A j \in streaming : stream[j] = "finished" /\ (unlisted \/ j \in ended \/ Lingers(j))

AnnouncedOK ==
  /\ \A i \in 1..Len(queue) : Kind(i) = "queued" => About(i) \in streaming
  /\ \A j \in Jobs : Shown(j, "queued") => j \in streaming

\* The notice of a stream that ended for want of a valid token: one line.
Notices(j) == IF stream[j] = "finished" /\ lost[j] \in Expiries THEN 1 ELSE 0

\* While the renderer takes events each line sent is shown or queued, each
\* notice, and each end.
LinesQueued(j) == Cardinality({i \in 1..Len(queue) : Kind(i) = "log" /\ About(i) = j})
CountOK ==
  renderer = "on" =>
    \A j \in Jobs :
      /\ LinesShown(j) + LinesQueued(j) = sent[j] + Notices(j)
      /\ j \in ended => Shown(j, "ended") \/ \E i \in 1..Len(queue) : Kind(i) = "ended" /\ About(i) = j

CInv == VInv /\ FullShape /\ StreamsOK /\ SweepOK /\ OverOK /\ AnnouncedOK /\ CountOK
          /\ AnnouncedAreClosed /\ LogsAreComplete /\ ExpiryIsTold

\* Who changes what.
LEMMA Frames ==
  ASSUME Next
  PROVE  /\ ListJobs \/ Relist \/ UNCHANGED seen
         /\ Mint \/ SpawnStream \/ UNCHANGED token
         /\ (\E j \in Jobs : StreamLine(j)) \/ UNCHANGED sent
         /\ SpawnStream \/ UNCHANGED stale
         /\ Relist \/ UNCHANGED unlisted
         /\ Examine \/ UNCHANGED streaming
         /\ Sweep \/ UNCHANGED ended
         /\ ListJobs \/ Examine \/ Relist \/ Sweep \/ UNCHANGED todo
         /\ GetBuild \/ UNCHANGED build
         /\ Receive \/ UNCHANGED <<feed, codes>>
<1> USE DEF viewVars, pollVars, streamVars, historyVars
<1>1. ASSUME \/ RequestFails \/ NobodyListens \/ BuildStart \/ StepQueued \/ StepStart \/ Drain \/ BuildEnd
             \/ Backend \/ FeedCloses \/ RendererDies
             \/ \E j \in Jobs : Notice(j) \/ StreamExpires(j) \/ StreamDone(j) \/ StreamBreaks(j)
                               \/ StreamUnheard(j) \/ StreamAborted(j)
      PROVE  UNCHANGED <<seen, token, sent, stale, unlisted, streaming, ended, todo, build, feed, codes>>
  BY <1>1 DEF RequestFails, NobodyListens, BuildStart, StepQueued, StepStart, Drain, BuildEnd, Notice,
              StreamExpires, StreamDone, StreamBreaks, StreamUnheard, StreamAborted, StreamStops, Backend, CtrlC,
              Cancelled, CancelBuild, FeedCloses, RendererDies
<1>2. Mint => UNCHANGED <<seen, sent, stale, unlisted, streaming, ended, todo, build, feed, codes>>
  BY DEF Mint
<1>3. ListJobs => UNCHANGED <<token, sent, stale, unlisted, streaming, ended, build, feed, codes>>
  BY DEF ListJobs
<1>4. Examine => UNCHANGED <<seen, token, sent, stale, unlisted, ended, build, feed, codes>>
  BY DEF Examine
<1>5. SpawnStream => UNCHANGED <<seen, sent, unlisted, streaming, ended, todo, build, feed, codes>>
  BY DEF SpawnStream
<1>6. GetBuild => UNCHANGED <<seen, token, sent, stale, unlisted, streaming, ended, todo, feed, codes>>
  BY DEF GetBuild
<1>7. Relist => UNCHANGED <<token, sent, stale, streaming, ended, build, feed, codes>>
  BY DEF Relist
<1>8. Sweep => UNCHANGED <<seen, token, sent, stale, unlisted, streaming, build, feed, codes>>
  BY DEF Sweep
<1>9. \A j \in Jobs : StreamLine(j) =>
        UNCHANGED <<seen, token, stale, unlisted, streaming, ended, todo, build, feed, codes>>
  BY DEF StreamLine
<1>10. Receive => UNCHANGED <<seen, token, sent, stale, unlisted, streaming, ended, todo, build>>
  BY DEF Receive
<1> QED BY <1>1, <1>2, <1>3, <1>4, <1>5, <1>6, <1>7, <1>8, <1>9, <1>10 DEF Next, Watcher, Streams, Renderer

\* What happens to a stream: it is opened by the watcher, it expires, or it ends.
StreamEnds(j) ==
  /\ stream' = [stream EXCEPT ![j] = "finished"]
  /\ \/ stream[j] = "expired" /\ UNCHANGED lost
     \/ stream[j] = "open" /\ sent[j] = Lines /\ lost' = [lost EXCEPT ![j] = "no"]
     \/ stream[j] \in {"open", "expired"} /\ lost' = [lost EXCEPT ![j] = "broken"]

LEMMA StreamFrames ==
  ASSUME Next, Shape
  PROVE  \/ SpawnStream
         \/ \E j \in Jobs : StreamExpires(j) \/ StreamEnds(j)
         \/ UNCHANGED <<stream, lost>>
<1>1. ASSUME NEW j \in Jobs,
             Notice(j) \/ StreamDone(j) \/ StreamBreaks(j) \/ StreamUnheard(j) \/ StreamAborted(j)
      PROVE  StreamEnds(j)
  BY <1>1 DEF Notice, StreamDone, StreamBreaks, StreamUnheard, StreamAborted, StreamStops, StreamEnds,
              StreamGone, Shape, historyVars
<1>2. ASSUME NEW j \in Jobs, StreamLine(j) PROVE UNCHANGED <<stream, lost>>
  BY <1>2 DEF StreamLine, historyVars
<1>3. CASE Streams
  BY <1>1, <1>2, <1>3 DEF Streams
<1>4. CASE Watcher \/ Backend \/ Renderer
  BY <1>4 DEF Watcher, Backend, Renderer, RequestFails, NobodyListens, Mint, BuildStart,
            ListJobs, Examine, StepQueued, StepStart, GetBuild, Drain, Relist, Sweep, BuildEnd,
            Receive, CtrlC, Cancelled, CancelBuild, FeedCloses, RendererDies, viewVars, pollVars,
            streamVars, historyVars
<1> QED BY <1>3, <1>4 DEF Next

\* Where the watcher goes.
LEMMA WatchFrames ==
  ASSUME Next
  PROVE  /\ Watching' => Watching
         /\ Announcing /\ Watching' => (Announcing' /\ UNCHANGED current) \/ SpawnStream
         /\ watch' = "sweep" => Relist \/ watch = "sweep"
         /\ watch \in {"gone", "canceling"} => watch' \in {watch, "gone"}
<1> USE DEF Next, Watcher, Streams, Backend, Renderer, RequestFails, NobodyListens, Mint, BuildStart,
            ListJobs, Examine, StepQueued, StepStart, GetBuild, Drain, Relist, Sweep, BuildEnd, Leave,
            StreamLine, Notice, StreamDone, StreamBreaks, StreamUnheard, StreamAborted, StreamStops, StreamExpires, CtrlC,
            Receive, Cancelled, CancelBuild, FeedCloses, RendererDies, viewVars, pollVars, streamVars,
            historyVars
<1>1. Watching' => Watching
  BY DEF Watching, SpawnStream
<1>2. Announcing /\ Watching' => (Announcing' /\ UNCHANGED current) \/ SpawnStream
  BY DEF Announcing, Watching
<1>3. watch' = "sweep" => Relist \/ watch = "sweep"
  BY DEF SpawnStream
<1>4. watch \in {"gone", "canceling"} => watch' \in {watch, "gone"}
  BY DEF SpawnStream
<1> QED BY <1>1, <1>2, <1>3, <1>4

\* When the build's end was sent the watcher and its streams rest.
LEMMA Rested ==
  ASSUME Next, watch = "gone", \A j \in Jobs : StreamGone(j)
  PROVE  UNCHANGED <<watch, stream, streaming, ended, seen, build, unlisted, sent, lost>>
BY DEF Next, Watcher, Streams, Backend, Renderer, RequestFails, NobodyListens, Mint, BuildStart,
            ListJobs, Examine, StepQueued, StepStart, SpawnStream, GetBuild, Drain, Relist, Sweep, BuildEnd,
            StreamLine, Notice, StreamDone, StreamBreaks, StreamUnheard, StreamAborted, StreamExpires, StreamGone, CtrlC,
            Receive, Cancelled, CancelBuild, FeedCloses, RendererDies, viewVars, pollVars, streamVars,
            historyVars

\* What sending a message goes with.
SaidWhen(e) ==
  \/ e[1] = "buildstart" /\ e[2] = NoJob /\ UNCHANGED <<sent, ended, stream, lost>>
  \/ e[1] = "queued" /\ e[2] \in streaming /\ UNCHANGED <<sent, ended, stream, lost>>
  \/ e[1] = "started" /\ UNCHANGED <<sent, ended, stream, lost>>
  \/ e[1] = "ended" /\ e[2] \in Jobs /\ UNCHANGED <<sent, stream, lost>> /\ ended' = ended \cup {e[2]}
  \/ /\ e[1] = "log" /\ e[2] \in Jobs /\ UNCHANGED <<ended, lost>>
     /\ \/ sent' = [sent EXCEPT ![e[2]] = @ + 1] /\ UNCHANGED stream
        \/ /\ stream[e[2]] = "expired" /\ stream' = [stream EXCEPT ![e[2]] = "finished"]
           /\ UNCHANGED sent
  \/ /\ e[1] = "over" /\ e[2] = NoJob /\ watch = "sweep" /\ todo = <<>> /\ watch' = "gone"
     /\ UNCHANGED <<sent, ended, stream, lost, streaming, seen, build, unlisted>>

\* A silent step sends no notice.
LEMMA SilentNotices ==
  ASSUME VInv, lost \in [Jobs -> {"no", "broken"} \cup Expiries], Silent
  PROVE  \A j \in Jobs : Notices(j)' = Notices(j)
<1> SUFFICES ASSUME NEW j \in Jobs PROVE Notices(j)' = Notices(j)
  OBVIOUS
<1>1. stream \in [Jobs -> {"none", "open", "expired", "finished"}]
  BY DEF VInv, Shape
<1>2. CASE SpawnStream
  <2>1. current \in Jobs /\ stream[current] = "none" /\ Connects(current)
    BY <1>2 DEF SpawnStream, VInv, PlaceOK
  <2>2. CASE j = current
    BY <1>1, <2>1, <2>2 DEF Connects, Notices, Expiries
  <2>3. CASE j # current
    BY <1>1, <2>1, <2>3 DEF Connects, Notices
  <2> QED BY <2>2, <2>3
<1>3. ASSUME NEW k \in Jobs, StreamExpires(k) PROVE Notices(j)' = Notices(j)
  BY <1>1, <1>3 DEF StreamExpires, Notices
<1>4. ASSUME NEW k \in Jobs,
             StreamDone(k) \/ StreamBreaks(k) \/ StreamUnheard(k) \/ StreamAborted(k)
      PROVE  Notices(j)' = Notices(j)
  <2>1. stream[k] \in {"open", "expired"} /\ (StreamStops(k, "no") \/ StreamStops(k, "broken"))
    BY <1>1, <1>4 DEF StreamDone, StreamBreaks, StreamUnheard, StreamAborted, StreamGone
  <2>2. CASE j = k
    BY <1>1, <2>1, <2>2 DEF StreamStops, Notices, Expiries
  <2>3. CASE j # k
    BY <1>1, <2>1, <2>3 DEF StreamStops, Notices
  <2> QED BY <2>2, <2>3
<1>5. ASSUME \/ RequestFails \/ NobodyListens \/ Mint \/ ListJobs \/ Examine \/ GetBuild \/ Drain \/ Relist
             \/ Sweep \/ BuildEnd \/ Backend \/ FeedCloses
      PROVE  UNCHANGED <<stream, lost>>
  BY <1>5 DEF RequestFails, NobodyListens, Mint, ListJobs, Examine, GetBuild, Drain, Relist, Sweep, BuildEnd,
              Backend, CtrlC, Cancelled, CancelBuild, FeedCloses, streamVars, historyVars
<1>6. UNCHANGED <<stream, lost>> => Notices(j)' = Notices(j)
  BY DEF Notices
<1> QED BY <1>2, <1>3, <1>4, <1>5, <1>6 DEF Silent

\* Every step leaves the messages alone, sends one, takes one or drops them all.
LEMMA Moves ==
  ASSUME VInv, FullShape, Next
  PROVE  \/ /\ UNCHANGED <<queue, feed, codes, sent, ended>> /\ (renderer' = "on" => renderer = "on")
            /\ \A j \in Jobs : Notices(j)' = Notices(j)
         \/ /\ \E e \in Msgs : Send(e) /\ SaidWhen(e)
            /\ UNCHANGED <<feed, codes, renderer>>
            /\ \A i \in 1..Len(queue) : Kind(i) # "over"
         \/ Receive
         \/ RendererDies
<1>1. CASE Silent
  <2>1. UNCHANGED <<queue, feed>>
    BY <1>1, SilentV
  <2>2. \A j \in Jobs : ~StreamLine(j)
    <3> SUFFICES ASSUME NEW j \in Jobs, StreamLine(j) PROVE FALSE
      OBVIOUS
    <3>1. <<"log", j>> \in Msgs /\ Send(<<"log", j>>)
      BY MsgIs DEF StreamLine, Kinds
    <3>2. Len(queue') = Len(queue) + 1 /\ Len(queue) \in Nat
      BY <3>1, Sent DEF VInv
    <3> QED BY <2>1, <3>2
  <2>3. ~Receive
    <3> SUFFICES ASSUME Receive PROVE FALSE
      OBVIOUS
    <3>1. queue # <<>> /\ queue' \in {<<>>, Tail(queue)}
      BY DEF Receive
    <3>2. queue \in Seq(Msgs)
      BY DEF VInv, Shape
    <3>3. Len(Tail(queue)) = Len(queue) - 1 /\ Len(queue) \in Nat
      BY <3>1, <3>2, TailIs
    <3>4. Tail(queue) # queue
      BY <3>3
    <3> QED BY <2>1, <3>1, <3>4
  <2>4. UNCHANGED sent /\ UNCHANGED codes
    BY <2>2, <2>3, Frames
  <2>5. UNCHANGED ended
    BY <2>1, Frames, SilentSweepEnds
  <2>6. renderer' = "on" => renderer = "on"
    BY <1>1 DEF Silent, Backend, RequestFails, NobodyListens, Mint, ListJobs, Examine, SpawnStream, GetBuild,
                  Drain, Relist, Sweep, BuildEnd, StreamDone, StreamBreaks, StreamUnheard, StreamAborted,
                  StreamStops, StreamExpires, CtrlC, Cancelled, CancelBuild, FeedCloses, Open, viewVars
  <2>7. \A j \in Jobs : Notices(j)' = Notices(j)
    BY <1>1, SilentNotices DEF FullShape
  <2> QED BY <2>1, <2>4, <2>5, <2>6, <2>7
<1>2. CASE BuildStart \/ StepQueued \/ StepStart
  <2>1. /\ watch \in {"open", "queue", "start"} /\ UNCHANGED <<sent, ended, codes, renderer, stream, lost>>
        /\ Event[1] = (CASE watch = "open" -> "buildstart" [] watch = "queue" -> "queued"
                         [] watch = "start" -> "started")
        /\ Event[2] = IF watch = "open" THEN NoJob ELSE current
    BY <1>2, MsgIs DEF BuildStart, StepQueued, StepStart, Event, pollVars, streamVars, viewVars, historyVars, Kinds, Quiet,
                       VInv, Shape
  <2>2. Event \in Msgs /\ Send(Event) /\ UNCHANGED feed
    BY <1>2, AnnounceV
  <2>3. watch = "queue" => current \in streaming
    BY DEF VInv, PlaceOK
  <2>4. \A i \in 1..Len(queue) : Kind(i) # "over"
    BY <2>1 DEF VInv, VerdictOK
  <2> HIDE DEF Event
  <2>5. SaidWhen(Event)
    BY <2>1, <2>3 DEF SaidWhen
  <2> QED BY <2>1, <2>2, <2>4, <2>5
<1>3. CASE Sweep /\ ~UNCHANGED queue
  <2>1. PICK j \in Jobs, c \in Codes :
           /\ UNCHANGED <<feed, watch, stream, current, streaming, renderer>>
           /\ watch = "sweep" /\ j \notin ended /\ ended' = ended \cup {j} /\ Send(<<"ended", j, c>>)
    BY <1>3, SweepV
  <2> DEFINE e == <<"ended", j, c>>
  <2>2. e \in Msgs /\ e[1] = "ended" /\ e[2] = j
    BY MsgIs DEF Kinds
  <2> HIDE DEF e
  <2>3. UNCHANGED <<sent, codes, stream, lost>>
    BY <1>3 DEF Sweep, streamVars, viewVars, historyVars
  <2>4. \A i \in 1..Len(queue) : Kind(i) # "over"
    BY <2>1 DEF VInv, VerdictOK
  <2>5. Send(e) /\ SaidWhen(e)
    BY <2>1, <2>2, <2>3 DEF SaidWhen, e
  <2> QED BY <2>1, <2>2, <2>3, <2>4, <2>5
<1>4. CASE BuildEnd /\ Open
  <2>1. PICK c \in Codes :
           /\ Send(<<"over", NoJob, c>>) /\ watch = "sweep" /\ watch' = "gone"
           /\ UNCHANGED <<feed, stream, current, streaming, ended, renderer>>
    BY <1>4, EndV
  <2> DEFINE e == <<"over", NoJob, c>>
  <2>2. e \in Msgs /\ e[1] = "over" /\ e[2] = NoJob
    BY MsgIs DEF Quiet
  <2> HIDE DEF e
  <2>3. UNCHANGED <<sent, codes, seen, build, unlisted, lost>> /\ todo = <<>>
    BY <1>4 DEF BuildEnd, streamVars, viewVars, pollVars, historyVars
  <2>4. \A i \in 1..Len(queue) : Kind(i) # "over"
    BY <2>1 DEF VInv, VerdictOK
  <2>5. Send(e) /\ SaidWhen(e)
    BY <2>1, <2>2, <2>3 DEF SaidWhen, e
  <2> QED BY <2>1, <2>2, <2>3, <2>4, <2>5
<1>5. CASE \E j \in Jobs : StreamLine(j) \/ Notice(j)
  <2>1. PICK j \in Jobs : StreamLine(j) \/ Notice(j)
    BY <1>5
  <2>2. /\ Send(<<"log", j>>) /\ stream[j] \in {"open", "expired"}
        /\ UNCHANGED <<feed, watch, current, streaming, ended, renderer>>
    BY <2>1, LogV
  <2> DEFINE e == <<"log", j>>
  <2>3. e \in Msgs /\ e[1] = "log" /\ e[2] = j
    BY MsgIs DEF Kinds
  <2> HIDE DEF e
  <2>4. /\ UNCHANGED <<codes, lost>>
        /\ \/ sent' = [sent EXCEPT ![j] = @ + 1] /\ UNCHANGED stream
           \/ /\ stream[j] = "expired" /\ stream' = [stream EXCEPT ![j] = "finished"]
              /\ UNCHANGED sent
    BY <2>1 DEF StreamLine, Notice, viewVars, historyVars
  <2>5. \A i \in 1..Len(queue) : Kind(i) # "over"
    BY <2>2 DEF VInv, VerdictOK, StreamGone
  <2>6. Send(e) /\ SaidWhen(e)
    BY <2>2, <2>3, <2>4 DEF SaidWhen, e
  <2> QED BY <2>2, <2>3, <2>4, <2>5, <2>6
<1> QED BY <1>1, <1>2, <1>3, <1>4, <1>5, Steps

\* What sending does to the queue, by message.
LEMMA SentKinds ==
  ASSUME VInv, NEW e \in Msgs, Send(e)
  PROVE  /\ renderer = "on" /\ Len(queue') = Len(queue) + 1 /\ Len(queue) \in Nat
         /\ Kind(Len(queue))' = e[1] /\ About(Len(queue))' = e[2]
         /\ \A i \in 1..Len(queue) : Kind(i)' = Kind(i) /\ About(i)' = About(i)
         /\ \A i \in 1..Len(queue') : i \in 1..Len(queue) \/ i = Len(queue')
         /\ Len(queue') \in 1..Len(queue') /\ 1..Len(queue) \subseteq 1..Len(queue')
<1>1. /\ renderer = "on" /\ Len(queue') = Len(queue) + 1 /\ Len(queue) \in Nat
      /\ queue'[Len(queue) + 1] = e
      /\ \A i \in 1..Len(queue) : queue'[i] = queue[i]
      /\ \A i \in 1..Len(queue') : i \in 1..Len(queue) \/ i = Len(queue) + 1
  BY Sent DEF VInv
<1>2. Kind(Len(queue))' = e[1] /\ About(Len(queue))' = e[2]
  BY <1>1 DEF Kind, About
<1>3. \A i \in 1..Len(queue) : Kind(i)' = Kind(i) /\ About(i)' = About(i)
  BY <1>1 DEF Kind, About
<1>4. Len(queue') \in 1..Len(queue') /\ 1..Len(queue) \subseteq 1..Len(queue')
  BY <1>1
<1> QED BY <1>1, <1>2, <1>3, <1>4

\* What receiving does: the head is shown, or it is the build's end and all is
\* dropped.
LEMMA ReceivedKinds ==
  ASSUME VInv, Receive
  PROVE  /\ renderer = "on" /\ Len(queue) \in Nat \ {0} /\ 1 \in 1..Len(queue)
         /\ IF Kind(1) = "over"
            THEN UNCHANGED feed /\ codes' # <<>> /\ renderer' # "on" /\ Len(queue') = 0
            ELSE /\ Len(queue') = Len(queue) - 1 /\ UNCHANGED codes
                 /\ \A i \in 1..Len(queue') :
                      Kind(i)' = Kind(i + 1) /\ About(i)' = About(i + 1) /\ i + 1 \in 1..Len(queue)
                 /\ feed' = IF About(1) = NoJob THEN feed
                            ELSE [feed EXCEPT ![About(1)] = Append(@, Kind(1))]
<1>1. /\ renderer = "on" /\ queue # <<>>
      /\ IF Kind(1) = "over" THEN UNCHANGED feed /\ codes' # <<>> /\ renderer' # "on" /\ queue' = <<>>
            ELSE /\ queue' = Tail(queue) /\ UNCHANGED codes
                 /\ feed' = IF About(1) = NoJob THEN feed
                            ELSE [feed EXCEPT ![About(1)] = Append(@, Kind(1))]
  BY ReceiveV
<1>2. queue \in Seq(Msgs)
  BY DEF VInv, Shape
<1>3. Len(queue) \in Nat \ {0} /\ 1 \in 1..Len(queue)
  BY <1>1, <1>2, TailIs, EmptySeq
<1>4. Kind(1) # "over" =>
        /\ Len(queue') = Len(queue) - 1
        /\ \A i \in 1..Len(queue') : Kind(i)' = Kind(i + 1) /\ About(i)' = About(i + 1) /\ i + 1 \in 1..Len(queue)
  BY <1>1, <1>2, Popped DEF Kind, About
<1>5. Kind(1) = "over" => Len(queue') = 0
  BY <1>1
<1> QED BY <1>1, <1>3, <1>4, <1>5

-----------------------------------------------------------------------------
(* Each part of it is kept.                                                 *)

LEMMA FullShapeKept ==
  ASSUME VInv, FullShape, Next PROVE FullShape'
<1>1. Listing \in Seq(Listed)
  BY JobsAssumption, ElementOfSeq DEF Listed
<1>2. seen' \in [Jobs -> DOMAIN Later]
  <2>1. Listings(build) \subseteq [Jobs -> DOMAIN Later]
    BY DEF Listings, Settled, Later, JobTerminal
  <2> QED BY <2>1, Frames DEF FullShape, ListJobs, Relist
<1>3. token' \in {"fresh", "old"}
  BY Frames DEF FullShape, Mint, SpawnStream, Refresh
<1>4. sent' \in [Jobs -> 0..Lines]
  <2>1. ASSUME NEW j \in Jobs, StreamLine(j) PROVE sent' \in [Jobs -> 0..Lines]
    <3>1. sent[j] \in 0..Lines /\ sent[j] < Lines
      BY <2>1 DEF FullShape, StreamLine
    <3>2. sent[j] + 1 \in 0..Lines
      BY <3>1, BoundsAssumption
    <3> QED BY <2>1, <3>2 DEF FullShape, StreamLine
  <2> QED BY <2>1, Frames DEF FullShape
<1>5. lost' \in [Jobs -> {"no", "broken"} \cup Expiries]
  <2>1. SpawnStream => lost' \in [Jobs -> {"no", "broken"} \cup Expiries]
    BY DEF FullShape, SpawnStream, Connects, Expiries
  <2>2. ASSUME NEW j \in Jobs, StreamExpires(j) \/ StreamEnds(j)
        PROVE  lost' \in [Jobs -> {"no", "broken"} \cup Expiries]
    BY <2>2 DEF FullShape, StreamExpires, StreamEnds, Expiries
  <2> QED BY <2>1, <2>2, StreamFrames DEF FullShape, VInv
<1>6. Len(queue') <= Capacity
  <2>1. ASSUME NEW e \in Msgs, Send(e) PROVE Len(queue') <= Capacity
    BY <2>1, SentKinds, BoundsAssumption DEF Send, Room
  <2>2. RendererDies => Len(queue') = 0
    BY DEF RendererDies
  <2>3. Receive => Len(queue') \in {0, Len(queue) - 1} /\ Len(queue) \in Nat
    BY ReceivedKinds
  <2> QED BY <2>1, <2>2, <2>3, Moves, BoundsAssumption DEF FullShape
<1>7. codes' = <<>> \/ Len(codes') = 1
  <2>1. CASE Receive
    <3>1. codes = <<>>
      BY <2>1 DEF Receive, Open, VInv, VerdictOK
    <3>2. \A c : Len(Append(<<>>, c)) = 1
      OBVIOUS
    <3> QED BY <2>1, <3>1, <3>2 DEF Receive
  <2> QED BY <2>1, Frames DEF FullShape
<1>8. todo' \in Seq(Listed)
  <2>1. ASSUME Examine \/ Sweep PROVE todo' = Tail(todo) /\ todo # <<>>
    BY <2>1 DEF Examine, Sweep
  <2>2. Examine \/ Sweep => todo' \in Seq(Listed)
    BY <2>1, TailIs DEF FullShape
  <2>3. ListJobs \/ Relist => todo' \in Seq(Listed)
    BY <1>1 DEF FullShape, ListJobs, Relist
  <2> QED BY <2>2, <2>3, Frames DEF FullShape
<1>9. streaming' \subseteq Listed
  <2>1. Examine => Head(todo) \in Listed
    BY HeadTailProperties DEF FullShape, Examine
  <2> QED BY <2>1, Frames DEF FullShape, Examine
<1> QED BY <1>2, <1>3, <1>4, <1>5, <1>6, <1>7, <1>8, <1>9 DEF FullShape

LEMMA StreamsKept ==
  ASSUME VInv, FullShape, StreamsOK, Next PROVE StreamsOK'
<1>1. /\ stream \in [Jobs -> {"none", "open", "expired", "finished"}]
      /\ lost \in [Jobs -> {"no", "broken"} \cup Expiries]
  BY DEF VInv, Shape, FullShape
<1>2. sent \in [Jobs -> 0..Lines]
  BY DEF FullShape
<1>3. ASSUME SpawnStream
      PROVE  /\ current \in Jobs /\ stream[current] = "none" /\ watch = "spawn" /\ watch' = "jobs"
             /\ UNCHANGED <<sent, streaming>>
             /\ \A j \in Jobs \ {current} : stream'[j] = stream[j] /\ lost'[j] = lost[j]
             /\ \/ stream'[current] = "open" /\ lost'[current] = lost[current]
                \/ stream'[current] = "expired" /\ lost'[current] = "refused" /\ token' = "old"
                \/ stream'[current] = "finished" /\ lost'[current] = "broken"
  <2>1. current \in Jobs /\ stream[current] = "none" /\ watch = "spawn" /\ watch' = "jobs"
    BY <1>3 DEF SpawnStream, VInv, PlaceOK
  <2>2. UNCHANGED <<sent, streaming>>
    BY <1>3 DEF SpawnStream
  <2>3. Connects(current)
    BY <1>3 DEF SpawnStream
  <2> QED BY <1>1, <2>1, <2>2, <2>3 DEF Connects
<1>4. ASSUME NEW k \in Jobs, StreamEnds(k)
      PROVE  /\ \A j \in Jobs \ {k} : stream'[j] = stream[j] /\ lost'[j] = lost[j]
             /\ stream'[k] = "finished" /\ stream[k] \in {"open", "expired"}
             /\ lost'[k] \in {"no", "broken"} \/ (lost'[k] = lost[k] /\ stream[k] = "expired")
             /\ lost'[k] = "no" => sent[k] = Lines \/ (lost'[k] = lost[k] /\ stream[k] = "expired")
  BY <1>1, <1>4 DEF StreamEnds
<1>5. ASSUME NEW k \in Jobs, StreamLine(k)
      PROVE  stream[k] = "open" /\ \A j \in Jobs \ {k} : sent'[j] = sent[j]
  BY <1>2, <1>5 DEF StreamLine
<1>6. ASSUME NEW j \in Jobs, stream'[j] = stream[j], lost'[j] = lost[j]
      PROVE  /\ stream'[j] = "finished" /\ lost'[j] = "no" => sent'[j] = Lines
             /\ stream'[j] = "expired" => lost'[j] \in Expiries
             /\ stream'[j] \in {"none", "open"} => lost'[j] = "no"
  <2>1. stream'[j] = "finished" => sent'[j] = sent[j]
    BY <1>5, <1>6, Frames
  <2> QED BY <1>6, <2>1 DEF StreamsOK
<1>7. ASSUME NEW j \in Jobs
      PROVE  /\ stream'[j] = "finished" /\ lost'[j] = "no" => sent'[j] = Lines
             /\ stream'[j] = "expired" => lost'[j] \in Expiries
             /\ stream'[j] \in {"none", "open"} => lost'[j] = "no"
  <2>1. CASE SpawnStream
    <3>1. CASE j = current
      BY <1>3, <2>1, <3>1 DEF StreamsOK, Expiries
    <3>2. CASE j # current
      BY <1>3, <1>6, <2>1, <3>2
    <3> QED BY <3>1, <3>2
  <2>2. ASSUME NEW k \in Jobs, StreamEnds(k)
        PROVE  /\ stream'[j] = "finished" /\ lost'[j] = "no" => sent'[j] = Lines
               /\ stream'[j] = "expired" => lost'[j] \in Expiries
               /\ stream'[j] \in {"none", "open"} => lost'[j] = "no"
    <3>1. CASE j = k
      <4>1. UNCHANGED sent
        <5>1. \A l \in Jobs : ~StreamLine(l)
          BY <1>4, <2>2, <1>1 DEF StreamLine, historyVars
        <5> QED BY <5>1, Frames
      <4>2. lost'[k] = "no" => sent[k] = Lines
        BY <1>4, <2>2 DEF StreamsOK, Expiries
      <4> QED BY <1>4, <2>2, <3>1, <4>1, <4>2
    <3>2. CASE j # k
      BY <1>4, <1>6, <2>2, <3>2
    <3> QED BY <3>1, <3>2
  <2>3. CASE UNCHANGED <<stream, lost>>
    BY <1>6, <2>3
  <2>4. ASSUME NEW k \in Jobs, StreamExpires(k)
        PROVE  /\ stream'[j] = "finished" /\ lost'[j] = "no" => sent'[j] = Lines
               /\ stream'[j] = "expired" => lost'[j] \in Expiries
               /\ stream'[j] \in {"none", "open"} => lost'[j] = "no"
    <3>1. CASE j = k
      BY <1>1, <2>4, <3>1 DEF StreamExpires, Expiries
    <3>2. CASE j # k
      BY <1>1, <1>6, <2>4, <3>2 DEF StreamExpires
    <3> QED BY <3>1, <3>2
  <2> QED BY <2>1, <2>2, <2>3, <2>4, StreamFrames DEF VInv
<1>8. ASSUME NEW j \in streaming', Watching' PROVE stream'[j] # "none" \/ (Announcing' /\ current' = j)
  <2>1. Watching
    BY <1>8, WatchFrames
  <2>2. \A k \in Jobs : stream[k] # "none" => stream'[k] # "none"
    BY <1>1, <1>3, <1>4, StreamFrames DEF VInv, StreamExpires
  <2>3. CASE Examine
    <3>1. /\ ~Announcing
          /\ streaming' = streaming \/ (streaming' = streaming \cup {current'} /\ Announcing')
      BY <2>3 DEF Examine, Announcing
    <3> QED BY <1>8, <2>1, <2>2, <3>1 DEF StreamsOK, VInv, Shape
  <2>4. CASE ~Examine
    <3>1. j \in streaming /\ j \in Jobs
      BY <1>8, <2>4, Frames DEF VInv, Shape
    <3>2. CASE SpawnStream
      BY <1>3, <2>1, <2>2, <3>1, <3>2 DEF StreamsOK
    <3>3. CASE ~SpawnStream
      BY <1>8, <2>1, <2>2, <3>1, <3>3, WatchFrames DEF StreamsOK
    <3> QED BY <3>2, <3>3
  <2> QED BY <2>3, <2>4
<1>9. RefusalHasCause'
  <2>1. CASE SpawnStream
    <3>1. token' = "old" => stale'
      BY <2>1 DEF SpawnStream, Refresh, FullShape
    <3>2. stale => stale'
      BY <2>1 DEF SpawnStream, Refresh
    <3> QED BY <1>3, <2>1, <3>1, <3>2 DEF StreamsOK, RefusalHasCause
  <2>2. ASSUME NEW k \in Jobs, StreamExpires(k) \/ StreamEnds(k), ~SpawnStream PROVE RefusalHasCause'
    <3>1. UNCHANGED stale /\ \A j \in Jobs : lost'[j] = "refused" => lost[j] = "refused"
      BY <1>1, <1>4, <2>2, Frames DEF StreamExpires
    <3> QED BY <3>1 DEF StreamsOK, RefusalHasCause
  <2>3. CASE UNCHANGED <<stream, lost>> /\ ~SpawnStream
    BY <2>3, Frames DEF StreamsOK, RefusalHasCause
  <2> QED BY <2>1, <2>2, <2>3, StreamFrames DEF VInv
<1>10. \A j \in streaming' : stream'[j] # "none" \/ ~Watching' \/ (Announcing' /\ current' = j)
  BY <1>8
<1> QED BY <1>7, <1>9, <1>10 DEF StreamsOK

LEMMA SweepKept ==
  ASSUME VInv, FullShape, SweepOK, Next PROVE SweepOK'
<1> SUFFICES ASSUME watch' = "sweep", ~unlisted'
             PROVE  /\ \A j \in Jobs : seen'[j] \in JobTerminal \/ Lingers(j)'
                    /\ \A j \in streaming' : \/ j \in ended' \/ Lingers(j)'
                                             \/ \E i \in 1..Len(todo') : todo'[i] = j
  BY DEF SweepOK
<1>1. CASE Relist
  <2>1. seen' \in Listings(build) /\ todo' = Listing /\ UNCHANGED <<build, streaming>> /\ build \in BuildTerminal
    BY <1>1 DEF Relist, VInv, VerdictOK
  <2>2. \A j \in Jobs : seen'[j] \in JobTerminal \/ Lingers(j)'
    BY <2>1 DEF Listings, Settled, BuildTerminal, JobTerminal, Lingers
  <2>3. \A j \in streaming : \E i \in 1..Len(todo') : todo'[i] = j
    BY <2>1 DEF FullShape, Listed
  <2> QED BY <2>1, <2>2, <2>3
<1>2. CASE ~Relist
  <2>1. watch = "sweep" /\ ~unlisted
    BY <1>2, WatchFrames, Frames
  <2>2. UNCHANGED <<seen, streaming, build>>
    BY <1>2, <2>1, Frames DEF ListJobs, Examine, GetBuild
  <2>3. \A j \in Jobs : Lingers(j)' = Lingers(j)
    BY <2>2 DEF Lingers
  <2>4. CASE Sweep
    <3>1. /\ todo' = Tail(todo) /\ todo # <<>> /\ ended \subseteq ended'
          /\ seen[Head(todo)] \in JobTerminal => Head(todo) \in ended'
      BY <2>4 DEF Sweep, Closes
    <3>2. ASSUME NEW i \in 1..Len(todo) PROVE todo[i] = Head(todo) \/ \E k \in 1..Len(todo') : todo'[k] = todo[i]
      <4>1. /\ Head(todo) = todo[1] /\ Len(todo) \in Nat /\ Len(todo') = Len(todo) - 1
            /\ \A k \in 1..Len(todo') : todo'[k] = todo[k + 1]
        BY <3>1, TailIs DEF FullShape
      <4>2. CASE i # 1
        <5>1. i - 1 \in 1..Len(todo') /\ (i - 1) + 1 = i
          BY <4>1, <4>2
        <5>2. todo'[i - 1] = todo[i]
          BY <4>1, <5>1
        <5> QED BY <5>1, <5>2
      <4> QED BY <4>1, <4>2
    <3>3. streaming \subseteq Jobs
      BY DEF VInv, Shape
    <3> QED BY <2>1, <2>2, <2>3, <3>1, <3>2, <3>3 DEF SweepOK
  <2>5. CASE ~Sweep
    <3>1. UNCHANGED <<ended, todo>>
      BY <1>2, <2>1, <2>5, Frames DEF ListJobs, Examine
    <3>2. streaming \subseteq Jobs
      BY DEF VInv, Shape
    <3> QED BY <2>1, <2>2, <2>3, <3>1, <3>2 DEF SweepOK
  <2> QED BY <2>4, <2>5
<1> QED BY <1>1, <1>2

LEMMA OverKept ==
  ASSUME VInv, FullShape, StreamsOK, SweepOK, OverOK, Next PROVE OverOK'
<1>1. ASSUME NEW i \in 1..Len(queue'), Kind(i)' = "over" PROVE i = Len(queue')
  <2>1. ASSUME NEW e \in Msgs, Send(e), \A k \in 1..Len(queue) : Kind(k) # "over" PROVE i = Len(queue')
    BY <1>1, <2>1, SentKinds
  <2>2. CASE Receive
    <3>1. /\ Len(queue) \in Nat \ {0} /\ Len(queue') = Len(queue) - 1
          /\ Kind(i + 1) = "over" /\ i + 1 \in 1..Len(queue)
      BY <1>1, <2>2, ReceivedKinds
    <3>2. i + 1 = Len(queue)
      BY <3>1 DEF OverOK
    <3> QED BY <3>1, <3>2
  <2>3. CASE RendererDies
    BY <1>1, <2>3 DEF RendererDies
  <2>4. CASE UNCHANGED queue
    BY <1>1, <2>4 DEF OverOK, Kind
  <2> QED BY <2>1, <2>2, <2>3, <2>4, Moves
<1>2. ASSUME OverSent
      PROVE  /\ watch' = "gone"
             /\ \A j \in Jobs : StreamGone(j)'
             /\ \A j \in streaming' : stream'[j] = "finished" /\ (unlisted' \/ j \in ended' \/ Lingers(j)')
  <2>1. /\ watch = "gone"
        /\ \A j \in Jobs : StreamGone(j)
        /\ \A j \in streaming : stream[j] = "finished" /\ (unlisted \/ j \in ended \/ Lingers(j))
    BY <1>2 DEF OverOK
  <2>2. UNCHANGED <<watch, stream, streaming, ended, seen, build, unlisted>>
    BY <2>1, Rested
  <2> QED BY <2>1, <2>2 DEF StreamGone, Lingers
<1>3. ASSUME ~OverSent, OverSent'
      PROVE  /\ watch = "sweep" /\ todo = <<>> /\ watch' = "gone"
             /\ UNCHANGED <<ended, stream, streaming, seen, build, unlisted>>
  <2>1. codes = <<>> /\ \A k \in 1..Len(queue) : Kind(k) # "over"
    BY <1>3 DEF OverSent
  <2>2. ASSUME NEW e \in Msgs, Send(e), SaidWhen(e), UNCHANGED codes
        PROVE  /\ watch = "sweep" /\ todo = <<>> /\ watch' = "gone"
               /\ UNCHANGED <<ended, stream, streaming, seen, build, unlisted>>
    <3>1. e[1] = "over"
      BY <1>3, <2>1, <2>2, SentKinds DEF OverSent
    <3> QED BY <2>2, <3>1 DEF SaidWhen
  <2>3. CASE Receive
    BY <1>3, <2>1, <2>3, ReceivedKinds DEF OverSent
  <2>4. CASE RendererDies
    BY <1>3, <2>1, <2>4 DEF RendererDies, OverSent
  <2>5. CASE UNCHANGED <<queue, codes>>
    BY <1>3, <2>1, <2>5 DEF OverSent, Kind
  <2> QED BY <2>2, <2>3, <2>4, <2>5, Moves
<1>4. ASSUME ~OverSent, OverSent'
      PROVE  /\ watch' = "gone"
             /\ \A j \in Jobs : StreamGone(j)'
             /\ \A j \in streaming' : stream'[j] = "finished" /\ (unlisted' \/ j \in ended' \/ Lingers(j)')
  <2>1. /\ watch = "sweep" /\ todo = <<>> /\ watch' = "gone"
        /\ UNCHANGED <<ended, stream, streaming, seen, build, unlisted>>
    BY <1>4, <1>3
  <2>2. \A j \in Jobs : StreamGone(j)
    BY <2>1 DEF VInv, PlaceOK
  <2>3. \A j \in streaming : stream[j] # "none" /\ j \in Jobs
    BY <2>1 DEF StreamsOK, Watching, Announcing, VInv, Shape
  <2>4. \A j \in streaming : unlisted \/ j \in ended \/ Lingers(j)
    BY <2>1 DEF SweepOK
  <2> QED BY <2>1, <2>2, <2>3, <2>4 DEF StreamGone, Lingers
<1> QED BY <1>1, <1>2, <1>4 DEF OverOK

-----------------------------------------------------------------------------
(* The lines, counted.                                                      *)

LEMMA Grown ==
  ASSUME NEW n \in Nat, NEW A \in SUBSET (1..n)
  PROVE  Cardinality(A \cup {n + 1}) = Cardinality(A) + 1 /\ Cardinality(A) \in Nat
<1>1. 1 \in Int /\ n \in Int
  OBVIOUS
<1>2. IsFiniteSet(1..n)
  BY <1>1, FS_Interval
<1>3. IsFiniteSet(A)
  BY <1>2, FS_Subset
<1>4. n + 1 \notin A
  OBVIOUS
<1> QED BY <1>3, <1>4, FS_AddElement, FS_CardinalityType

\* What is shown of a job after a step.
LEMMA ShownAfter ==
  ASSUME VInv, Receive, Kind(1) # "over", NEW j \in Jobs
  PROVE  /\ About(1) # j => feed'[j] = feed[j]
         /\ About(1) = j => feed'[j] = Append(feed[j], Kind(1)) /\ Kind(1) \in Kinds
         /\ feed[j] \in Seq(Kinds)
<1>1. feed \in [Jobs -> Seq(Kinds)]
  BY DEF VInv, Shape
<1>2. feed' = IF About(1) = NoJob THEN feed ELSE [feed EXCEPT ![About(1)] = Append(@, Kind(1))]
  BY ReceivedKinds
<1>3. IF Kind(1) \in Kinds THEN About(1) \in Jobs ELSE About(1) = NoJob
  BY ReceivedKinds DEF VInv, AboutOK
<1>4. j # NoJob
  BY JobsAssumption
<1> QED BY <1>1, <1>2, <1>3, <1>4

LEMMA ShownIs ==
  ASSUME NEW j, NEW s \in Seq(Kinds), NEW b \in Kinds, feed[j] = s, feed'[j] = Append(s, b)
  PROVE  /\ \A k : Shown(j, k)' <=> Shown(j, k) \/ k = b
         /\ LinesShown(j)' = LinesShown(j) + (IF b = "log" THEN 1 ELSE 0) /\ LinesShown(j) \in Nat
<1> DEFINE t == Append(s, b)
           n == Len(s)
           A == {i \in 1..n : s[i] = "log"}
           B == {i \in 1..Len(t) : t[i] = "log"}
<1>1. /\ n \in Nat /\ Len(t) = n + 1 /\ t[n + 1] = b /\ \A i \in 1..n : t[i] = s[i]
      /\ \A i \in 1..(n + 1) : i \in 1..n \/ i = n + 1
      /\ DOMAIN s = 1..n /\ DOMAIN t = 1..(n + 1)
  <2>1. t \in Seq(Kinds)
    BY AppendIs
  <2> QED BY <2>1, AppendIs
<1>2. \A k : Shown(j, k)' <=> Shown(j, k) \/ k = b
  <2>1. \A k : Shown(j, k) <=> \E i \in 1..n : s[i] = k
    BY <1>1 DEF Shown
  <2>2. \A k : Shown(j, k)' <=> \E i \in 1..(n + 1) : t[i] = k
    BY <1>1 DEF Shown
  <2>3. n + 1 \in 1..(n + 1) /\ 1..n \subseteq 1..(n + 1)
    BY <1>1
  <2> QED BY <1>1, <2>1, <2>2, <2>3
<1>3. LinesShown(j) = Cardinality(A) /\ LinesShown(j)' = Cardinality(B)
  BY <1>1 DEF LinesShown
<1>4. IsFiniteSet(A) /\ Cardinality(A) \in Nat
  <2>1. 1 \in Int /\ n \in Int
    BY <1>1
  <2>2. IsFiniteSet(1..n)
    BY <2>1, FS_Interval
  <2>3. A \subseteq 1..n
    OBVIOUS
  <2>4. IsFiniteSet(A)
    BY <2>2, <2>3, FS_Subset
  <2> QED BY <2>4, FS_CardinalityType
<1>5. B = IF b = "log" THEN A \cup {n + 1} ELSE A
  BY <1>1
<1>6. n + 1 \notin A
  BY <1>1
<1> HIDE DEF A, B
<1>7. Cardinality(A \cup {n + 1}) = Cardinality(A) + 1
  BY <1>4, <1>6, FS_AddElement
<1> QED BY <1>2, <1>3, <1>4, <1>5, <1>7

LEMMA ShownNat ==
  ASSUME NEW j, feed[j] \in Seq(Kinds) PROVE LinesShown(j) \in Nat
<1> DEFINE n == Len(feed[j])
           A == {i \in 1..n : feed[j][i] = "log"}
<1>1. n \in Nat /\ DOMAIN feed[j] = 1..n
  OBVIOUS
<1>3. LinesShown(j) = Cardinality(A)
  BY <1>1 DEF LinesShown
<1>2. A \in SUBSET (1..n)
  OBVIOUS
<1> HIDE DEF A, n
<1> QED BY <1>1, <1>2, <1>3, Grown

LEMMA AnnouncedKept ==
  ASSUME VInv, FullShape, AnnouncedOK, Next PROVE AnnouncedOK'
<1>1. streaming \subseteq streaming'
  BY Frames DEF Examine
<1>2. ASSUME NEW e \in Msgs, Send(e), SaidWhen(e), UNCHANGED feed PROVE AnnouncedOK'
  <2>1. \A j \in Jobs : Shown(j, "queued")' => j \in streaming'
    BY <1>1, <1>2 DEF AnnouncedOK, Shown
  <2>2. e[1] = "queued" => e[2] \in streaming
    BY <1>2 DEF SaidWhen
  <2>3. \A i \in 1..Len(queue') : Kind(i)' = "queued" => About(i)' \in streaming'
    BY <1>1, <1>2, <2>2, SentKinds DEF AnnouncedOK
  <2> QED BY <2>1, <2>3 DEF AnnouncedOK
<1>3. CASE Receive
  <2>1. CASE Kind(1) = "over"
    BY <1>1, <1>3, <2>1, ReceivedKinds DEF AnnouncedOK, Shown
  <2>2. CASE Kind(1) # "over"
    <3>1. \A i \in 1..Len(queue') : Kind(i)' = "queued" => About(i)' \in streaming'
      BY <1>1, <1>3, <2>2, ReceivedKinds DEF AnnouncedOK
    <3>2. ASSUME NEW j \in Jobs, Shown(j, "queued")' PROVE j \in streaming'
      <4>1. CASE About(1) # j
        BY <1>1, <1>3, <2>2, <3>2, <4>1, ShownAfter DEF AnnouncedOK, Shown
      <4>2. CASE About(1) = j
        <5>1. Shown(j, "queued") \/ Kind(1) = "queued"
          BY <1>3, <2>2, <3>2, <4>2, ShownAfter, ShownIs
        <5>2. 1 \in 1..Len(queue)
          BY <1>3, ReceivedKinds
        <5> QED BY <1>1, <4>2, <5>1, <5>2 DEF AnnouncedOK
      <4> QED BY <4>1, <4>2
    <3> QED BY <3>1, <3>2 DEF AnnouncedOK
  <2> QED BY <2>1, <2>2
<1>4. CASE RendererDies
  BY <1>1, <1>4 DEF RendererDies, AnnouncedOK, Shown
<1>5. CASE UNCHANGED <<queue, feed>>
  BY <1>1, <1>5 DEF AnnouncedOK, Shown, Kind, About
<1> QED BY <1>2, <1>3, <1>4, <1>5, Moves

-----------------------------------------------------------------------------
(* The lines on their way, by job.                                           *)

LEMMA Shifted ==
  ASSUME NEW n \in Nat, NEW A \in SUBSET (1..(n + 1)), NEW B \in SUBSET (1..n),
         \A i \in 1..n : i \in B <=> i + 1 \in A
  PROVE  /\ Cardinality(A) = Cardinality(B) + (IF 1 \in A THEN 1 ELSE 0)
         /\ Cardinality(B) \in Nat
<1> DEFINE C == A \ {1}
           f == [i \in B |-> i + 1]
<1>1. IsFiniteSet(B) /\ Cardinality(B) \in Nat
  <2>1. 1 \in Int /\ n \in Int
    OBVIOUS
  <2>2. IsFiniteSet(1..n)
    BY <2>1, FS_Interval
  <2> QED BY <2>2, FS_Subset, FS_CardinalityType
<1>2. \A i \in B : i \in 1..n /\ i + 1 \in C
  OBVIOUS
<1>3. \A c \in C : \E i \in B : i + 1 = c
  <2> SUFFICES ASSUME NEW c \in C PROVE \E i \in B : i + 1 = c
    OBVIOUS
  <2>1. c - 1 \in 1..n /\ (c - 1) + 1 = c
    OBVIOUS
  <2>2. c - 1 \in B
    BY <2>1
  <2> QED BY <2>1, <2>2
<1>4. f \in [B -> C] /\ \A i \in B : f[i] = i + 1
  BY <1>2
<1>5. \A a, b \in B : f[a] = f[b] => a = b
  BY <1>2, <1>4
<1>6. \A c \in C : \E i \in B : f[i] = c
  BY <1>3, <1>4
<1> HIDE DEF f, C
<1>7. f \in Bijection(B, C)
  BY <1>4, <1>5, <1>6, Fun_IsBij
<1>8. Cardinality(C) = Cardinality(B) /\ IsFiniteSet(C)
  BY <1>1, <1>7, FS_Bijection DEF ExistsBijection
<1>9. A = IF 1 \in A THEN C \cup {1} ELSE C
  BY DEF C
<1>10. 1 \notin C
  BY DEF C
<1>11. Cardinality(C \cup {1}) = Cardinality(C) + 1
  BY <1>8, <1>10, FS_AddElement
<1> QED BY <1>1, <1>8, <1>9, <1>11

LEMMA SentCount ==
  ASSUME VInv, NEW e \in Msgs, Send(e), NEW j
  PROVE  /\ LinesQueued(j)' = LinesQueued(j) + (IF e[1] = "log" /\ e[2] = j THEN 1 ELSE 0)
         /\ LinesQueued(j) \in Nat
<1> DEFINE n == Len(queue)
           A == {i \in 1..n : Kind(i) = "log" /\ About(i) = j}
           B == {i \in 1..Len(queue') : queue'[i][1] = "log" /\ queue'[i][2] = j}
<1>1. /\ Len(queue') = n + 1 /\ n \in Nat
      /\ queue'[n + 1][1] = e[1] /\ queue'[n + 1][2] = e[2]
      /\ \A i \in 1..n : queue'[i][1] = Kind(i) /\ queue'[i][2] = About(i)
  <2>1. /\ Len(queue') = n + 1 /\ n \in Nat /\ queue'[n + 1] = e
        /\ \A i \in 1..n : queue'[i] = queue[i]
    BY Sent DEF VInv
  <2> QED BY <2>1 DEF Kind, About
<1>2. LinesQueued(j) = Cardinality(A) /\ LinesQueued(j)' = Cardinality(B)
  BY DEF LinesQueued, Kind, About
<1>3. B = IF e[1] = "log" /\ e[2] = j THEN A \cup {n + 1} ELSE A
  <2>1. B = {i \in 1..(n + 1) : queue'[i][1] = "log" /\ queue'[i][2] = j}
    BY <1>1
  <2>2. \A i : i \in 1..(n + 1) <=> i \in 1..n \/ i = n + 1
    BY <1>1
  <2>3. \A i : i \in B <=> i \in A \/ (i = n + 1 /\ e[1] = "log" /\ e[2] = j)
    BY <1>1, <2>1, <2>2
  <2> QED BY <2>3
<1>4. A \in SUBSET (1..n)
  OBVIOUS
<1> HIDE DEF A, B
<1>5. Cardinality(A \cup {n + 1}) = Cardinality(A) + 1 /\ Cardinality(A) \in Nat
  BY <1>1, <1>4, Grown
<1>6. CASE e[1] = "log" /\ e[2] = j
  BY <1>2, <1>3, <1>5, <1>6
<1>7. CASE ~(e[1] = "log" /\ e[2] = j)
  BY <1>2, <1>3, <1>5, <1>7
<1> QED BY <1>6, <1>7

LEMMA ReceivedCount ==
  ASSUME VInv, Receive, Kind(1) # "over", NEW j
  PROVE  /\ LinesQueued(j) = LinesQueued(j)' + (IF Kind(1) = "log" /\ About(1) = j THEN 1 ELSE 0)
         /\ LinesQueued(j)' \in Nat
<1> DEFINE n == Len(queue')
           A == {i \in 1..Len(queue) : Kind(i) = "log" /\ About(i) = j}
           B == {i \in 1..n : Kind(i)' = "log" /\ About(i)' = j}
<1>1. /\ Len(queue) = n + 1 /\ n \in Nat /\ 1 \in 1..Len(queue)
      /\ \A i \in 1..n : Kind(i)' = Kind(i + 1) /\ About(i)' = About(i + 1) /\ i + 1 \in 1..Len(queue)
  BY ReceivedKinds
<1>2. LinesQueued(j) = Cardinality(A) /\ LinesQueued(j)' = Cardinality(B)
  BY DEF LinesQueued
<1>3. A \in SUBSET (1..(n + 1)) /\ B \in SUBSET (1..n) /\ \A i \in 1..n : i \in B <=> i + 1 \in A
  BY <1>1
<1>4. 1 \in A <=> Kind(1) = "log" /\ About(1) = j
  BY <1>1
<1> HIDE DEF A, B
<1>5. /\ Cardinality(A) = Cardinality(B) + (IF 1 \in A THEN 1 ELSE 0)
      /\ Cardinality(B) \in Nat
  BY <1>1, <1>3, Shifted
<1> QED BY <1>2, <1>4, <1>5

LEMMA CountKept ==
  ASSUME VInv, FullShape, StreamsOK, CountOK, Next PROVE CountOK'
<1> SUFFICES ASSUME renderer' = "on", NEW j \in Jobs
             PROVE  /\ LinesShown(j)' + LinesQueued(j)' = sent'[j] + Notices(j)'
                    /\ j \in ended' => \/ Shown(j, "ended")'
                                       \/ \E i \in 1..Len(queue') : Kind(i)' = "ended" /\ About(i)' = j
  BY DEF CountOK
<1>1. sent \in [Jobs -> 0..Lines] /\ sent[j] \in Nat /\ feed[j] \in Seq(Kinds)
  BY BoundsAssumption DEF FullShape, VInv, Shape
<1>2. Notices(j) \in {0, 1}
  BY DEF Notices
<1>3. CASE /\ UNCHANGED <<queue, feed, codes, sent, ended>> /\ (renderer' = "on" => renderer = "on")
           /\ Notices(j)' = Notices(j)
  BY <1>3 DEF CountOK, LinesShown, LinesQueued, Shown, Kind, About
<1>4. ASSUME NEW e \in Msgs, Send(e), SaidWhen(e), UNCHANGED feed
      PROVE  /\ LinesShown(j)' + LinesQueued(j)' = sent'[j] + Notices(j)'
             /\ j \in ended' => \/ Shown(j, "ended")'
                                \/ \E i \in 1..Len(queue') : Kind(i)' = "ended" /\ About(i)' = j
  <2>1. /\ renderer = "on"
        /\ Kind(Len(queue))' = e[1] /\ About(Len(queue))' = e[2]
        /\ \A i \in 1..Len(queue) : Kind(i)' = Kind(i) /\ About(i)' = About(i)
        /\ Len(queue') \in 1..Len(queue') /\ 1..Len(queue) \subseteq 1..Len(queue')
    BY <1>4, SentKinds
  <2>2. /\ LinesShown(j) + LinesQueued(j) = sent[j] + Notices(j)
        /\ j \in ended => Shown(j, "ended") \/ \E i \in 1..Len(queue) : Kind(i) = "ended" /\ About(i) = j
    BY <2>1 DEF CountOK
  <2>3. LinesShown(j)' = LinesShown(j) /\ (Shown(j, "ended")' <=> Shown(j, "ended"))
    BY <1>4 DEF LinesShown, Shown
  <2>4. LinesShown(j) \in Nat
    BY <1>1, ShownNat
  <2>5. j \in ended' => j \in ended \/ (e[1] = "ended" /\ e[2] = j)
    BY <1>4 DEF SaidWhen
  <2>6. j \in ended' => \/ Shown(j, "ended")'
                        \/ \E i \in 1..Len(queue') : Kind(i)' = "ended" /\ About(i)' = j
    BY <2>1, <2>2, <2>3, <2>5
  <2>7. LinesShown(j)' + LinesQueued(j)' = sent'[j] + Notices(j)'
    <3>1. stream \in [Jobs -> {"none", "open", "expired", "finished"}]
      BY DEF VInv, Shape
    <3>2. LinesQueued(j)' = LinesQueued(j) + (IF e[1] = "log" /\ e[2] = j THEN 1 ELSE 0) /\ LinesQueued(j) \in Nat
      BY <1>4, SentCount
    <3>3. CASE e[1] = "log" /\ e[2] = j
      <4>1. LinesQueued(j)' = LinesQueued(j) + 1
        BY <3>2, <3>3
      <4>2. CASE sent' = [sent EXCEPT ![j] = @ + 1] /\ UNCHANGED <<stream, lost>>
        <5>1. sent'[j] = sent[j] + 1 /\ Notices(j)' = Notices(j)
          BY <1>1, <4>2 DEF Notices
        <5> QED BY <1>1, <1>2, <2>2, <2>3, <2>4, <3>2, <4>1, <5>1
      <4>3. CASE /\ stream[j] = "expired" /\ stream' = [stream EXCEPT ![j] = "finished"]
                 /\ UNCHANGED <<sent, lost>>
        <5>1. lost[j] \in Expiries
          BY <4>3 DEF StreamsOK
        <5>2. Notices(j) = 0 /\ Notices(j)' = 1 /\ sent'[j] = sent[j]
          BY <3>1, <4>3, <5>1 DEF Notices
        <5> QED BY <1>1, <2>2, <2>3, <2>4, <3>2, <4>1, <5>2
      <4> QED BY <1>4, <3>3, <4>2, <4>3 DEF SaidWhen
    <3>4. CASE ~(e[1] = "log" /\ e[2] = j)
      <4>1. sent'[j] = sent[j] /\ stream'[j] = stream[j] /\ lost'[j] = lost[j]
        BY <1>1, <1>4, <3>1, <3>4 DEF SaidWhen
      <4>2. LinesQueued(j)' = LinesQueued(j) /\ Notices(j)' = Notices(j)
        BY <3>2, <3>4, <4>1 DEF Notices
      <4> QED BY <2>2, <2>3, <4>1, <4>2
    <3> QED BY <3>3, <3>4
  <2> QED BY <2>6, <2>7
<1>5. CASE Receive
  <2>1. /\ renderer = "on" /\ Kind(1) # "over" /\ Len(queue) \in Nat \ {0}
        /\ Len(queue') = Len(queue) - 1
        /\ \A i \in 1..Len(queue') :
             Kind(i)' = Kind(i + 1) /\ About(i)' = About(i + 1) /\ i + 1 \in 1..Len(queue)
    BY <1>5, ReceivedKinds
  <2>2. UNCHANGED <<sent, lost, ended, stream>> /\ Notices(j)' = Notices(j)
    BY <1>5 DEF Receive, streamVars, pollVars, historyVars, Notices
  <2>3. /\ LinesShown(j) + LinesQueued(j) = sent[j] + Notices(j)
        /\ j \in ended => Shown(j, "ended") \/ \E i \in 1..Len(queue) : Kind(i) = "ended" /\ About(i) = j
    BY <2>1 DEF CountOK
  <2>4. /\ LinesQueued(j) = LinesQueued(j)' + (IF Kind(1) = "log" /\ About(1) = j THEN 1 ELSE 0)
        /\ LinesQueued(j)' \in Nat
    BY <1>5, <2>1, ReceivedCount
  <2>5. /\ \A k : Shown(j, k)' <=> Shown(j, k) \/ (About(1) = j /\ k = Kind(1))
        /\ LinesShown(j)' = LinesShown(j) + (IF Kind(1) = "log" /\ About(1) = j THEN 1 ELSE 0)
        /\ LinesShown(j) \in Nat
    <3>1. CASE About(1) = j
      <4>1. feed'[j] = Append(feed[j], Kind(1)) /\ Kind(1) \in Kinds
        BY <1>5, <2>1, <3>1, ShownAfter
      <4>2. /\ \A k : Shown(j, k)' <=> Shown(j, k) \/ k = Kind(1)
            /\ LinesShown(j)' = LinesShown(j) + (IF Kind(1) = "log" THEN 1 ELSE 0) /\ LinesShown(j) \in Nat
        BY <1>1, <4>1, ShownIs
      <4> QED BY <3>1, <4>2
    <3>2. CASE About(1) # j
      <4>1. feed'[j] = feed[j]
        BY <1>5, <2>1, <3>2, ShownAfter
      <4>2. LinesShown(j)' = LinesShown(j) /\ \A k : Shown(j, k)' <=> Shown(j, k)
        BY <4>1 DEF LinesShown, Shown
      <4>3. LinesShown(j) \in Nat
        BY <1>1, ShownNat
      <4> QED BY <3>2, <4>2, <4>3
    <3> QED BY <3>1, <3>2
  <2>6. LinesShown(j)' + LinesQueued(j)' = sent'[j] + Notices(j)'
    <3>1. LinesShown(j) + LinesQueued(j) = sent'[j] + Notices(j)'
      BY <2>2, <2>3
    <3>2. CASE Kind(1) = "log" /\ About(1) = j
      BY <2>4, <2>5, <3>1, <3>2
    <3>3. CASE ~(Kind(1) = "log" /\ About(1) = j)
      BY <2>4, <2>5, <3>1, <3>3
    <3> QED BY <3>2, <3>3
  <2>7. ASSUME NEW i \in 1..Len(queue), Kind(i) = "ended", About(i) = j
        PROVE  Shown(j, "ended")' \/ \E k \in 1..Len(queue') : Kind(k)' = "ended" /\ About(k)' = j
    <3>1. CASE i = 1
      BY <2>5, <2>7, <3>1
    <3>2. CASE i # 1
      <4>1. i - 1 \in 1..Len(queue') /\ (i - 1) + 1 = i
        BY <2>1, <3>2
      <4>2. \A k \in 1..Len(queue') : k + 1 = i => Kind(k)' = "ended" /\ About(k)' = j
        BY <2>1, <2>7
      <4> QED BY <4>1, <4>2
    <3> QED BY <3>1, <3>2
  <2>8. j \in ended' => \/ Shown(j, "ended")'
                        \/ \E i \in 1..Len(queue') : Kind(i)' = "ended" /\ About(i)' = j
    BY <2>2, <2>3, <2>5, <2>7
  <2> QED BY <2>6, <2>8
<1>6. CASE RendererDies
  BY <1>6 DEF RendererDies
<1> QED BY <1>3, <1>4, <1>5, <1>6, Moves

\* Once the end of the build is shown nothing moves what was announced, shown
\* or lost.
LEMMA AfterOver ==
  ASSUME VInv, OverOK, Next, codes # <<>>
  PROVE  UNCHANGED <<codes, feed, streaming, ended, seen, build, unlisted, lost, sent>>
<1>1. watch = "gone" /\ \A j \in Jobs : StreamGone(j)
  BY DEF OverOK, OverSent
<1>2. UNCHANGED <<streaming, ended, seen, build, unlisted, lost, sent>>
  BY <1>1, Rested
<1>3. ~Receive
  BY DEF Receive, Open, VInv, VerdictOK
<1> QED BY <1>2, <1>3, Frames

\* When the end of the build is taken, no message waits behind it.
LEMMA OverIsLast ==
  ASSUME VInv, OverOK, CountOK, Receive, Kind(1) = "over"
  PROVE  /\ renderer = "on" /\ UNCHANGED <<feed, streaming, ended, seen, build, unlisted, lost, sent>>
         /\ \A j \in Jobs : StreamGone(j)
         /\ \A j \in Jobs : LinesQueued(j) = 0 /\ (j \in ended => Shown(j, "ended"))
         /\ \A j \in streaming : stream[j] = "finished" /\ (unlisted \/ j \in ended \/ Lingers(j))
<1>1. /\ renderer = "on" /\ Len(queue) \in Nat \ {0} /\ 1 \in 1..Len(queue) /\ UNCHANGED feed
  BY ReceivedKinds
<1>2. Len(queue) = 1 /\ OverSent
  BY <1>1 DEF OverOK, OverSent
<1>3. \A i \in 1..Len(queue) : Kind(i) = "over"
  BY <1>1, <1>2
<1>4. \A j \in Jobs : LinesQueued(j) = 0
  <2> SUFFICES ASSUME NEW j \in Jobs PROVE LinesQueued(j) = 0
    OBVIOUS
  <2>1. {i \in 1..Len(queue) : Kind(i) = "log" /\ About(i) = j} = {}
    BY <1>3
  <2> QED BY <2>1, FS_EmptySet DEF LinesQueued
<1>5. \A j \in Jobs : j \in ended => Shown(j, "ended")
  BY <1>1, <1>3 DEF CountOK
<1>6. UNCHANGED <<streaming, ended, seen, build, unlisted, lost, sent>>
  BY DEF Receive, pollVars, historyVars, streamVars
<1>7. (\A j \in Jobs : StreamGone(j)) /\ \A j \in streaming : stream[j] = "finished" /\ (unlisted \/ j \in ended \/ Lingers(j))
  BY <1>2 DEF OverOK
<1> QED BY <1>1, <1>4, <1>5, <1>6, <1>7

LEMMA ClosedKept ==
  ASSUME VInv, FullShape, StreamsOK, OverOK, AnnouncedOK, CountOK, AnnouncedAreClosed, LogsAreComplete,
         ExpiryIsTold, Next
  PROVE  AnnouncedAreClosed' /\ LogsAreComplete' /\ ExpiryIsTold'
<1>1. CASE codes # <<>>
  <2>1. AnnouncedAreClosed' /\ LogsAreComplete'
    BY <1>1, AfterOver DEF AnnouncedAreClosed, LogsAreComplete, Shown, LinesShown
  <2>2. ExpiryIsTold'
    BY <1>1, AfterOver DEF ExpiryIsTold, LinesShown
  <2> QED BY <2>1, <2>2
<1>2. CASE codes = <<>> /\ Receive /\ Kind(1) = "over"
  <2>1. /\ renderer = "on" /\ UNCHANGED <<feed, streaming, ended, seen, build, unlisted, lost, sent>>
        /\ \A j \in Jobs : StreamGone(j)
        /\ \A j \in Jobs : LinesQueued(j) = 0 /\ (j \in ended => Shown(j, "ended"))
        /\ \A j \in streaming : stream[j] = "finished" /\ (unlisted \/ j \in ended \/ Lingers(j))
    BY <1>2, OverIsLast
  <2>2. \A j \in Jobs : Shown(j, "queued") => j \in streaming
    BY DEF AnnouncedOK
  <2>3. \A j \in Jobs, k \in Kinds : Shown(j, k)' <=> Shown(j, k)
    BY <2>1 DEF Shown
  <2>4. AnnouncedAreClosed'
    BY <2>1, <2>2, <2>3 DEF AnnouncedAreClosed, Lingers, Kinds
  <2>5. ASSUME NEW j \in Jobs, Shown(j, "queued"), lost[j] = "no" PROVE LinesShown(j) = Lines
    <3>1. stream[j] = "finished" /\ LinesQueued(j) = 0
      BY <2>1, <2>2, <2>5
    <3>2. sent[j] = Lines
      BY <2>5, <3>1 DEF StreamsOK
    <3>3. LinesShown(j) + LinesQueued(j) = sent[j] /\ sent[j] \in Nat
      <4>1. Notices(j) = 0
        BY <2>5 DEF Notices, Expiries
      <4>2. LinesShown(j) + LinesQueued(j) = sent[j] + Notices(j)
        BY <2>1 DEF CountOK
      <4>3. sent[j] \in Nat
        BY BoundsAssumption DEF FullShape
      <4> QED BY <4>1, <4>2, <4>3
    <3>4. LinesShown(j) \in Nat
      BY ShownNat DEF VInv, Shape
    <3> QED BY <3>1, <3>2, <3>3, <3>4
  <2>6. LogsAreComplete'
    BY <2>1, <2>3, <2>5 DEF LogsAreComplete, LinesShown, Kinds
  <2>7. ASSUME NEW j \in Jobs, lost[j] \in Expiries PROVE LinesShown(j) = sent[j] + 1
    <3>1. stream[j] = "finished"
      BY <2>1, <2>7 DEF StreamGone, StreamsOK, Expiries
    <3>2. Notices(j) = 1
      BY <2>7, <3>1 DEF Notices
    <3>3. LinesShown(j) + LinesQueued(j) = sent[j] + Notices(j) /\ LinesQueued(j) = 0
      BY <2>1 DEF CountOK
    <3>4. LinesShown(j) \in Nat
      BY ShownNat DEF VInv, Shape
    <3> QED BY <3>2, <3>3, <3>4
  <2>8. ExpiryIsTold'
    BY <2>1, <2>7 DEF ExpiryIsTold, LinesShown, Expiries
  <2> QED BY <2>4, <2>6, <2>8
<1>3. CASE codes = <<>> /\ ~(Receive /\ Kind(1) = "over")
  <2>1. codes' = <<>>
    BY <1>3, ReceivedKinds, Frames
  <2> QED BY <2>1 DEF AnnouncedAreClosed, LogsAreComplete, ExpiryIsTold
<1> QED BY <1>1, <1>2, <1>3

-----------------------------------------------------------------------------
LEMMA InitC == Init => CInv
<1> SUFFICES ASSUME Init PROVE CInv
  OBVIOUS
<1>1. VInv
  BY InitV
<1>2. /\ watch = "mint" /\ codes = <<>> /\ streaming = {} /\ ended = {} /\ todo = <<>> /\ token = "fresh"
      /\ seen = [j \in Jobs |-> "pending"] /\ sent = [j \in Jobs |-> 0] /\ lost = [j \in Jobs |-> "no"]
      /\ stream = [j \in Jobs |-> "none"] /\ feed = [j \in Jobs |-> <<>>]
  BY DEF Init
<1>3. Len(queue) = 1 /\ Kind(1) = "accepted" /\ \A i \in 1..Len(queue) : i = 1
  BY DEF Init, Kind
<1>4. FullShape
  <2>1. 0 \in 0..Lines /\ Len(queue) <= Capacity
    BY <1>3, BoundsAssumption
  <2>2. <<>> \in Seq(Listed) /\ {} \subseteq Listed
    OBVIOUS
  <2>3. "pending" \in DOMAIN Later
    BY DEF Later
  <2> QED BY <1>2, <2>1, <2>2, <2>3 DEF FullShape
<1>5. StreamsOK
  BY <1>2 DEF StreamsOK, RefusalHasCause
<1>6. SweepOK /\ OverOK
  BY <1>2, <1>3 DEF SweepOK, OverOK, OverSent
<1>7. \A j \in Jobs : feed[j] = <<>> /\ \A k : ~Shown(j, k)
  BY <1>2 DEF Shown
<1>8. AnnouncedOK
  BY <1>3, <1>7 DEF AnnouncedOK
<1>9. \A j \in Jobs : LinesShown(j) + LinesQueued(j) = 0
  <2> SUFFICES ASSUME NEW j \in Jobs PROVE LinesShown(j) + LinesQueued(j) = 0
    OBVIOUS
  <2>1. {i \in DOMAIN feed[j] : feed[j][i] = "log"} = {}
    BY <1>7
  <2>2. {i \in 1..Len(queue) : Kind(i) = "log" /\ About(i) = j} = {}
    BY <1>3
  <2>3. LinesShown(j) = 0 /\ LinesQueued(j) = 0
    BY <2>1, <2>2, FS_EmptySet DEF LinesShown, LinesQueued
  <2> QED BY <2>3
<1>10. CountOK
  BY <1>2, <1>9 DEF CountOK, Notices
<1>11. AnnouncedAreClosed /\ LogsAreComplete /\ ExpiryIsTold
  BY <1>2 DEF AnnouncedAreClosed, LogsAreComplete, ExpiryIsTold
<1> QED BY <1>1, <1>4, <1>5, <1>6, <1>8, <1>10, <1>11 DEF CInv

LEMMA NextC == CInv /\ [Next]_vars => CInv'
<1> SUFFICES ASSUME CInv, [Next]_vars PROVE CInv'
  OBVIOUS
<1>1. CASE UNCHANGED vars
  <2> USE <1>1 DEF vars, pollVars, streamVars, historyVars, viewVars
  <2>1. VInv'
    BY NextV DEF CInv
  <2>2. FullShape' /\ StreamsOK'
    BY DEF CInv, FullShape, StreamsOK, RefusalHasCause, Watching, Announcing
  <2>3. SweepOK'
    BY DEF CInv, SweepOK, Lingers
  <2>4. OverOK'
    BY DEF CInv, OverOK, OverSent, StreamGone, Kind, Lingers
  <2>5. AnnouncedOK' /\ CountOK'
    <3>1. AnnouncedOK'
      BY DEF CInv, AnnouncedOK, Shown, Kind, About
    <3>2. \A j : LinesShown(j)' = LinesShown(j) /\ LinesQueued(j)' = LinesQueued(j)
      BY DEF LinesShown, LinesQueued, Kind, About
    <3>3. CountOK'
      BY <3>2 DEF CInv, CountOK, Shown, Kind, About, Notices
    <3> QED BY <3>1, <3>3
  <2>6. AnnouncedAreClosed' /\ LogsAreComplete' /\ ExpiryIsTold'
    BY DEF CInv, AnnouncedAreClosed, LogsAreComplete, ExpiryIsTold, Shown, LinesShown
  <2> QED BY <2>1, <2>2, <2>3, <2>4, <2>5, <2>6 DEF CInv
<1>2. CASE Next
  <2>1. VInv'
    BY <1>2, NextV DEF CInv
  <2>2. FullShape' /\ StreamsOK' /\ SweepOK'
    BY <1>2, FullShapeKept, StreamsKept, SweepKept DEF CInv
  <2>3. OverOK' /\ AnnouncedOK' /\ CountOK'
    BY <1>2, OverKept, AnnouncedKept, CountKept DEF CInv
  <2>4. AnnouncedAreClosed' /\ LogsAreComplete' /\ ExpiryIsTold'
    BY <1>2, ClosedKept DEF CInv
  <2> QED BY <2>1, <2>2, <2>3, <2>4 DEF CInv
<1> QED BY <1>1, <1>2

LEMMA WholeFeed == CInv => FeedIsComplete
<1> SUFFICES ASSUME CInv PROVE FeedIsComplete
  OBVIOUS
<1>1. codes \in {<<>>, <<0>>, <<1>>, <<130>>}
  <2>1. CASE codes = <<>>
    BY <2>1
  <2>2. CASE Len(codes) = 1
    <3>1. codes \in Seq(Codes)
      BY DEF CInv, VInv, Shape
    <3>2. codes[1] \in Codes
      <4>1. 1 \in 1..Len(codes)
        BY <2>2
      <4> QED BY <3>1, <4>1, ElementOfSeq
    <3>3. <<codes[1]>> \in Seq(Codes) /\ Len(<<codes[1]>>) = 1 /\ <<codes[1]>>[1] = codes[1]
      BY <3>2
    <3>4. \A i \in 1..1 : i = 1
      OBVIOUS
    <3>5. codes = <<codes[1]>>
      BY <2>2, <3>1, <3>3, <3>4, SeqEqual
    <3> QED BY <3>2, <3>5 DEF Codes
  <2> QED BY <2>1, <2>2 DEF CInv, FullShape
<1>2. TypeOK
  BY <1>1 DEF CInv, VInv, Shape, FullShape, TypeOK, Kinds
<1> QED BY <1>2 DEF CInv, FeedIsComplete, StreamsOK

\* What the renderer was shown once the build is over is the whole build: every
\* announced job was closed, every line of a log came through unless its stream
\* broke or its token ran out, which a notice then said, and none was turned
\* away at its start unless its token could not be renewed
\* (watch.rs:211, 247, 251, 373).
THEOREM FeedComplete == Spec => []FeedIsComplete
<1>1. Init => CInv
  BY InitC
<1>2. CInv /\ [Next]_vars => CInv'
  BY NextC
<1>3. CInv => FeedIsComplete
  BY WholeFeed
<1> QED BY <1>1, <1>2, <1>3, PTL DEF Spec

=============================================================================
