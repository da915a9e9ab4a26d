------------------------------- MODULE HmRun -------------------------------
(***************************************************************************)
(* hm run, from its arguments to its exit code, as several invocations in  *)
(* one project see it: hm/src/commands/run/mod.rs, CloudBackend::start and *)
(* the watch task of hm-core/src/exec/cloud/backend.rs, LocalBackend's     *)
(* side of the same, the two config layers, and hm init's link of a        *)
(* project to the cloud.  Invocations share the project's config file and  *)
(* the server's pipelines; requests fail before or after the server has    *)
(* served them, and Ctrl-C comes at any time.                              *)
(***************************************************************************)
EXTENDS Integers, FiniteSets

CONSTANTS
  Runs,       \* invocations of hm in one project
  Pipes,      \* the pipelines the project declares
  Setups,     \* how a project may have been set up, see MCSetups
  MaxBuilds,  \* bound on the builds the server is given
  NoPipe, NoDomain,
  Discovery   \* the server's own registration of a repository it has discovered

ASSUME NoPipeIsNone == NoPipe \notin Pipes
ASSUME DiscoveryIsNoRun == Discovery \notin Runs

Domains == {"default", "pinned"}

VARIABLES
  file,       \* .hm/config.toml
  user,       \* the domain of the cloud backend in ~/.hm/config.toml
  remote,     \* the worktree has an origin remote
  shaped,     \* the server's slug for a pipeline is the pipeline's name
  configured, \* the slug the project's config held when the invocations began
  pipelines,  \* the pipelines the server has, on each domain
  builds,     \* the builds it was given
  deleted,    \* somebody deleted a pipeline from the dashboard
  run         \* the invocations

vars == <<file, user, remote, shaped, configured, pipelines, builds, deleted, run>>
world == <<user, remote, shaped, configured>>
server == <<pipelines, builds, deleted>>

Missing == [text |-> "missing", domain |-> NoDomain, slug |-> NoPipe]
Torn    == [Missing EXCEPT !.text = "torn"]     \* truncated, not yet written
Legacy  == [Missing EXCEPT !.text = "legacy"]   \* backend = "cloud", a [cloud] table
Docker  == [Missing EXCEPT !.text = "docker"]
Cloud(domain, slug) == [text |-> "cloud", domain |-> domain, slug |-> slug]

\* Whoever set the project up may have pinned a domain, and a pipeline: the slug
\* of an earlier registration stays when the worktree is given a remote.
ASSUME SetupsAssumption ==
  \A s \in Setups :
    /\ s.file \in {Missing, Docker}
                    \cup {Cloud(d, p) : d \in Domains \cup {NoDomain}, p \in Pipes \cup {NoPipe}}
    /\ s.user \in Domains \cup {NoDomain}
    /\ s.remote \in BOOLEAN /\ s.shaped \in BOOLEAN
    /\ s.found \subseteq Pipes

Texts == {Missing, Torn, Legacy, Docker}
           \cup {Cloud(d, s) : d \in Domains \cup {NoDomain}, s \in Pipes \cup {NoPipe}}

Fresh == [pc |-> "idle", cloud |-> FALSE, at |-> NoDomain, pin |-> NoPipe, ir |-> NoPipe,
          again |-> FALSE, raced |-> FALSE, doc |-> Missing, misread |-> FALSE, told |-> FALSE,
          code |-> 0, why |-> "none"]

\* Exit codes that nothing here tells apart are one.
Failure == 1         \* and 5, an API error
UserError == 2       \* and 3, not authorized
Unreachable == 4
PipelineInvalid == 7
Codes == {0, Failure, UserError, Unreachable, PipelineInvalid, 124, 130}

Init ==
  /\ \E s \in Setups :
       /\ file = s.file /\ user = s.user /\ remote = s.remote /\ shaped = s.shaped
       /\ configured = s.file.slug
       /\ pipelines = {[at |-> "default", name |-> p, by |-> Discovery] : p \in s.found}
  /\ builds = {}
  /\ deleted = FALSE
  /\ run = [r \in Runs |-> Fresh]

Goto(r, rec) == run' = [run EXCEPT ![r] = rec]
Step(r, pc) == Goto(r, [run[r] EXCEPT !.pc = pc])

\* The process is over; what the properties ask of it stays known.
Left(r, code, why) ==
  [Fresh EXCEPT !.pc = "over", !.code = code, !.why = why, !.misread = run[r].misread,
                !.cloud = run[r].cloud /\ code = 0]

Exit(r, code, why) == Goto(r, Left(r, code, why))

\* The server has the build; what was needed to submit it is not needed again.
Started(r, pc) ==
  Goto(r, [Fresh EXCEPT !.pc = pc, !.cloud = run[r].cloud, !.misread = run[r].misread])

-----------------------------------------------------------------------------
(* Arguments, config layers, pipeline.                                      *)

\* A truncated file reads as an empty one, which is a config without a backend.
Parses(text) == text # "legacy"

FirstDomain(d, e) == IF d # NoDomain THEN d ELSE IF e # NoDomain THEN e ELSE "default"

\* ResolvedProjectConfig::from_user_project: the project's layer over the user's.
Resolved ==
  CASE file.text = "docker" -> [cloud |-> FALSE, at |-> "default", pin |-> NoPipe]
    [] file.text = "cloud"  -> [cloud |-> TRUE, at |-> FirstDomain(file.domain, user), pin |-> file.slug]
    [] OTHER                -> [cloud |-> user # NoDomain, at |-> FirstDomain(NoDomain, user), pin |-> NoPipe]

LoadFails(r) ==
  /\ run[r].pc = "idle" /\ ~Parses(file.text)
  /\ Exit(r, Failure, "unparsed")
  /\ UNCHANGED <<file, world, server>>

\* --backend wins over the config; the cloud part of the config is taken from
\* the resolved backend, whatever --backend says.
Load(r) ==
  /\ run[r].pc = "idle" /\ Parses(file.text)
  /\ \E cloud \in BOOLEAN :
       Goto(r, [Fresh EXCEPT !.pc = "render", !.cloud = cloud, !.misread = file = Torn,
                             !.at = IF cloud THEN Resolved.at ELSE NoDomain,
                             !.pin = IF cloud THEN Resolved.pin ELSE NoPipe])
  /\ UNCHANGED <<file, world, server>>

\* No token or organization, an unknown backend or format, no pipeline or too
\* many, a pipeline that does not render or parse, no Docker daemon, --no-watch
\* on the local backend: all before anything is sent.
SetUpFails(r) ==
  /\ run[r].pc = "render"
  /\ \E code \in {Failure, UserError, PipelineInvalid} : Exit(r, code, "failed")
  /\ UNCHANGED <<file, world, server>>

Registers(r) == run[r].cloud /\ run[r].pin = NoPipe /\ ~remote

Render(r) ==
  /\ run[r].pc = "render"
  /\ IF run[r].cloud
     THEN \E p \in Pipes :
            Goto(r, [run[r] EXCEPT !.ir = p, !.pc = IF Registers(r) THEN "lookup" ELSE "submit"])
     ELSE Step(r, "local")
  /\ UNCHANGED <<file, world, server>>

-----------------------------------------------------------------------------
(* Registering a pipeline, and persisting its slug in the project's config. *)

Known(at, p) == \E k \in pipelines : k.at = at /\ k.name = p

\* get_pipeline addresses pipelines by slug, and is given the name.
Found(r) == shaped /\ Known(run[r].at, run[r].ir)

RequestFails(r) ==
  /\ run[r].pc \in {"lookup", "resolve", "create", "recreate"}
  /\ Exit(r, Failure, "failed")
  /\ UNCHANGED <<file, world, server>>

\* (mutant) creates without looking
LookupSkipped(r) ==
  /\ run[r].pc = "lookup"
  /\ Step(r, "create")
  /\ UNCHANGED <<file, world, server>>

Lookup(r) ==
  /\ run[r].pc = "lookup"
  /\ Goto(r, IF Found(r) THEN [run[r] EXCEPT !.pc = "read", !.pin = run[r].ir, !.raced = FALSE]
                         ELSE [run[r] EXCEPT !.pc = "create"])
  /\ UNCHANGED <<file, world, server>>

\* create_pipeline: the server refuses a name it has.
Collide(r) ==
  /\ run[r].pc \in {"create", "recreate"} /\ Known(run[r].at, run[r].ir)
  /\ Exit(r, Failure, IF run[r].raced THEN "overtaken" ELSE "collision")
  /\ UNCHANGED <<file, world, server>>

Created(r) ==
  IF run[r].pc = "create"
  THEN [run[r] EXCEPT !.pc = "read", !.pin = run[r].ir, !.raced = FALSE]
  ELSE [run[r] EXCEPT !.pc = "submit", !.pin = run[r].ir, !.raced = FALSE, !.again = TRUE]

\* Runs that are about to register a pipeline remember that another one did.
Register(r, rec) ==
  run' = [q \in Runs |->
            IF q = r THEN rec
            ELSE [run[q] EXCEPT !.raced = @ \/ run[q].pc \in {"lookup", "resolve", "create", "recreate"}]]

Create(r) ==
  /\ run[r].pc \in {"create", "recreate"} /\ ~Known(run[r].at, run[r].ir)
  /\ pipelines' = pipelines \cup {[at |-> run[r].at, name |-> run[r].ir, by |-> r]}
  /\ \/ Register(r, Created(r))
     \/ Register(r, Left(r, Failure, "failed"))    \* the answer is lost
  /\ UNCHANGED <<file, world, builds, deleted>>

\* (mutant) writes a new backend table
PersistedAnew(r) == Cloud(NoDomain, run[r].pin)

Persisted(r) ==
  Cloud(IF file.text = "cloud" THEN file.domain ELSE NoDomain, run[r].pin)

\* What cannot be read or parsed counts as an empty config.
ReadConfig(r) ==
  /\ run[r].pc = "read"
  /\ Goto(r, [run[r] EXCEPT !.pc = "truncate", !.doc = Persisted(r),
                            !.misread = @ \/ file \in {Torn, Legacy}])
  /\ UNCHANGED <<file, world, server>>

Truncate(r) ==
  /\ run[r].pc = "truncate"
  /\ file' = Torn
  /\ Step(r, "write")
  /\ UNCHANGED <<world, server>>

Write(r) ==
  /\ run[r].pc = "write"
  /\ file' = run[r].doc
  /\ Goto(r, [run[r] EXCEPT !.pc = "submit", !.doc = Missing])
  /\ UNCHANGED <<world, server>>

WriteFails(r) ==
  /\ run[r].pc \in {"truncate", "write"}
  /\ Exit(r, Failure, "failed")
  /\ UNCHANGED <<file, world, server>>

-----------------------------------------------------------------------------
(* Submitting, with one retry for a pipeline that the server does not know. *)

\* By slug where there is one, else by the repository's identity, under which
\* the server sees only what it has discovered itself.
Accepts(r) ==
  IF run[r].pin # NoPipe
  THEN Known(run[r].at, run[r].pin)
  ELSE [at |-> run[r].at, name |-> run[r].ir, by |-> Discovery] \in pipelines

Build(r) ==
  [by |-> r, number |-> Cardinality({b \in builds : b.by = r}) + 1, ir |-> run[r].ir,
   under |-> IF run[r].pin # NoPipe THEN run[r].pin ELSE run[r].ir, state |-> "running"]

Submit(r) ==
  /\ run[r].pc = "submit" /\ Accepts(r) /\ Cardinality(builds) < MaxBuilds
  /\ builds' = builds \cup {Build(r)}
  /\ Started(r, "accepted")
  /\ UNCHANGED <<file, world, pipelines, deleted>>

\* The archive fails or is too large, no connection, no authorization, anything
\* the server rejects.
SubmitFails(r) ==
  /\ run[r].pc = "submit"
  /\ \E code \in Codes \ {0, 124, 130} : Exit(r, code, "failed")
  /\ UNCHANGED <<file, world, server>>

IsMissing(r) == ~run[r].again /\ remote

Refuse(r) ==
  /\ run[r].pc = "submit" /\ ~Accepts(r)
  /\ IF IsMissing(r) THEN Step(r, "resolve") ELSE Exit(r, PipelineInvalid, "missing")
  /\ UNCHANGED <<file, world, server>>

Resolve(r) ==
  /\ run[r].pc = "resolve"
  /\ Goto(r, IF Found(r)
             THEN [run[r] EXCEPT !.pc = "submit", !.pin = run[r].ir, !.raced = FALSE, !.again = TRUE]
             ELSE [run[r] EXCEPT !.pc = "recreate"])
  /\ UNCHANGED <<file, world, server>>

\* The user does not want the pipeline created.
Decline(r) ==
  /\ run[r].pc = "recreate"
  /\ Exit(r, PipelineInvalid, "missing")
  /\ UNCHANGED <<file, world, server>>

\* The build is accepted and its answer does not arrive, or not readably, or a
\* gateway's: whatever its status, an error the API answers with is a rejection.
LoseAnswer(r) ==
  /\ run[r].pc = "accepted"
  /\ \E code \in {Failure, Unreachable, PipelineInvalid} : Exit(r, code, "lost")
  /\ UNCHANGED <<file, world, server>>

Watch(r) ==
  /\ run[r].pc = "accepted"
  /\ Step(r, "watch")
  /\ UNCHANGED <<file, world, server>>

NoWatch(r) ==
  /\ run[r].pc = "accepted"
  /\ Goto(r, [run[r] EXCEPT !.pc = "drain", !.why = "nowatch"])
  /\ UNCHANGED <<file, world, server>>

-----------------------------------------------------------------------------
(* Until the outcome: the watcher (CloudWatch has its inside), the local    *)
(* scheduler (Scheduler has its inside), Ctrl-C.                            *)

\* (mutant) only a failure fails
OutcomeLenient == [passed |-> 0, failed |-> 1, canceled |-> 0]
Outcome == [passed |-> 0, failed |-> 1, canceled |-> 130]

WatchEnds(r) ==
  /\ run[r].pc = "watch" /\ ~run[r].told
  /\ \E b \in builds :
       /\ b.by = r /\ b.state # "running"
       /\ Goto(r, [run[r] EXCEPT !.pc = "drain", !.code = Outcome[b.state]])
  /\ UNCHANGED <<file, world, server>>

\* (mutant) an expired authorization keeps its own exit code
WatchFailsByCategory(r) ==
  /\ run[r].pc = "watch" /\ ~run[r].told
  /\ \E code \in {Failure, UserError} : Exit(r, code, "watch")
  /\ UNCHANGED <<file, world, server>>

\* The error returns at once, the renderer is not waited for.
WatchFails(r) ==
  /\ run[r].pc = "watch" /\ ~run[r].told
  /\ Exit(r, Failure, "watch")
  /\ UNCHANGED <<file, world, server>>

Canceled(r) ==
  {IF b.by = r /\ b.state = "running" THEN [b EXCEPT !.state = "canceled"] ELSE b : b \in builds}

\* The token is looked at first; the request to the server is best effort.
Cancel(r) ==
  /\ run[r].pc = "watch" /\ run[r].told
  /\ \/ /\ builds' = Canceled(r)
        /\ Goto(r, [run[r] EXCEPT !.pc = "drain", !.code = 130])
     \/ /\ builds' = builds
        /\ Goto(r, [run[r] EXCEPT !.pc = "drain", !.code = 130, !.why = "uncancelled"])
  /\ UNCHANGED <<file, world, pipelines, deleted>>

LocalStart(r) ==
  /\ run[r].pc = "local"
  /\ Step(r, "building")
  /\ UNCHANGED <<file, world, server>>

LocalFails(r) ==
  /\ run[r].pc \in {"local", "building"}
  /\ Exit(r, Unreachable, "failed")
  /\ UNCHANGED <<file, world, server>>

LocalEnds(r) ==
  /\ run[r].pc = "building"
  /\ \E code \in {0, 1, 124, 130} : Goto(r, [run[r] EXCEPT !.pc = "drain", !.code = code])
  /\ UNCHANGED <<file, world, server>>

\* The renderer has shown the last event, and the process exits.
Drain(r) ==
  /\ run[r].pc = "drain"
  /\ Exit(r, run[r].code, run[r].why)
  /\ UNCHANGED <<file, world, server>>

\* The handler is installed when the build has been accepted: until then the
\* signal ends the process, and so does a second one.
Interrupt(r) ==
  /\ run[r].pc \notin {"idle", "over"}
  /\ IF run[r].pc \in {"watch", "building", "drain"} /\ ~run[r].told
     THEN Goto(r, [run[r] EXCEPT !.told = TRUE])
     ELSE Exit(r, 130, "killed")
  /\ UNCHANGED <<file, world, server>>

-----------------------------------------------------------------------------
(* hm init links the project to an organization.                            *)

LinkTruncates(r) ==
  /\ run[r].pc = "idle"
  /\ file' = Torn
  /\ Step(r, "link")
  /\ UNCHANGED <<world, server>>

LinkWrites(r) ==
  /\ run[r].pc = "link"
  /\ file' = Legacy
  /\ Exit(r, 0, "linked")
  /\ UNCHANGED <<world, server>>

-----------------------------------------------------------------------------
(* The server, on its own.                                                  *)

\* What becomes of a build that nobody watches is of no concern here.
BuildEnds ==
  /\ \E b \in builds, s \in {"passed", "failed", "canceled"} :
       /\ b.state = "running" /\ run[b.by].pc = "watch"
       /\ builds' = (builds \ {b}) \cup {[b EXCEPT !.state = s]}
  /\ UNCHANGED <<file, world, pipelines, deleted, run>>

PipelineDeleted ==
  /\ ~deleted
  /\ \E k \in pipelines : pipelines' = pipelines \ {k}
  /\ deleted' = TRUE
  /\ UNCHANGED <<file, world, builds, run>>

Over == (\A r \in Runs : run[r].pc = "over") /\ UNCHANGED vars

Registration(r) ==
  \/ RequestFails(r) \/ Lookup(r) \/ Collide(r) \/ Create(r)
  \/ ReadConfig(r) \/ Truncate(r) \/ Write(r) \/ WriteFails(r)
  \/ Resolve(r) \/ Decline(r)

CloudBuild(r) ==
  \/ Submit(r) \/ SubmitFails(r) \/ Refuse(r) \/ LoseAnswer(r)
  \/ Watch(r) \/ NoWatch(r) \/ WatchEnds(r) \/ WatchFails(r) \/ Cancel(r)

LocalBuild(r) == LocalStart(r) \/ LocalFails(r) \/ LocalEnds(r)

Next ==
  \/ \E r \in Runs :
       \/ LoadFails(r) \/ Load(r) \/ SetUpFails(r) \/ Render(r)
       \/ Registration(r) \/ CloudBuild(r) \/ LocalBuild(r)
       \/ Drain(r) \/ Interrupt(r)
       \/ LinkTruncates(r) \/ LinkWrites(r)
  \/ BuildEnds \/ PipelineDeleted \/ Over

Spec == Init /\ [][Next]_vars

-----------------------------------------------------------------------------
(* Correctness.                                                             *)

Pcs == {"idle", "render", "lookup", "create", "read", "truncate", "write", "submit", "accepted",
        "resolve", "recreate", "watch", "local", "building", "drain", "link", "over"}

TypeOK ==
  /\ file \in Texts
  /\ pipelines \subseteq [at : Domains, name : Pipes, by : Runs \cup {Discovery}]
  /\ \A k, l \in pipelines : k.at = l.at /\ k.name = l.name => k = l
  /\ \A r \in Runs : run[r].pc \in Pcs /\ run[r].code \in Codes

\* Whatever is refused, lost or retried (mod.rs:256), one hm run gives the
\* server at most one build.
OneBuildPerRun == \A b, c \in builds : b.by = c.by => b = c

\* A cloud run that exits 0 has a build that passed, or was told not to watch
\* and has one that was accepted (backend.rs:173, 219).
ZeroMeansPassed ==
  \A r \in Runs : run[r].pc = "over" /\ run[r].code = 0 /\ run[r].cloud =>
    \E b \in builds : b.by = r /\ (b.state = "passed" \/ run[r].why = "nowatch")

\* The exit codes of usage and authorization errors (error.rs:81) say that there
\* is no build: a script may correct the cause and run again.  The codes of the
\* network and of a rejection do not say it.
SafeToRetry ==
  \A r \in Runs : run[r].pc = "over" /\ run[r].code = UserError =>
    \A b \in builds : b.by # r

\* A build that goes on when its run is over was not to be watched, or the run
\* was killed, or an answer, a cancellation or the watch failed.
OrphansHaveCause ==
  \A b \in builds : b.state = "running" /\ run[b.by].pc = "over" =>
    run[b.by].why \in {"nowatch", "killed", "lost", "watch", "uncancelled"}

\* The server's builds and what hm run says of them: an invocation has at most
\* one build, one that may be repeated (exit 2) has none, and a build that
\* goes on without its hm run was left for one of five reasons.
BuildsAccounted == TypeOK /\ OneBuildPerRun /\ SafeToRetry /\ OrphansHaveCause

\* The server refuses the name of a new pipeline only if slugs are not names
\* there, or another run was faster: a run that died between the creation and
\* the config file is no obstacle to the next one (mod.rs:542).
CollisionHasCause == \A r \in Runs : run[r].why = "collision" => ~shaped

\* mod.rs:429, "persists the resolved slug so later runs submit by slug": the
\* server has the pipeline of a slug that a run persisted, but if it was deleted,
\* if some run read the config while another was writing it, or if the project
\* said docker and the user's config another domain (the first run takes the
\* default domain then, the next one the user's).
PersistedSlugResolves ==
  \A r \in Runs : ~remote /\ configured = NoPipe /\ run[r].why = "missing" =>
    deleted \/ (\E q \in Runs : run[q].misread) \/ user # NoDomain

\* Registration rewrites the config (mod.rs:403) and keeps the domain the
\* project pins, unless a run read the config in the middle of another's write.
DomainSurvives == [][
  \A r \in Runs : run[r].pc = "truncate" /\ run'[r].pc = "write" /\ file.text = "cloud" =>
    run[r].doc.domain = file.domain \/ \E q \in Runs : run[q].misread]_vars

\* With a remote, a build is filed under the pipeline it was rendered from,
\* unless the config names another one: its slug wins whatever the remote and
\* whatever pipeline was asked for (mod.rs:221).  No run persists one then.
FiledUnderOwn == remote => \A b \in builds : b.under \in {b.ir, configured}

\* The registration: a slug collides only on a server whose answer cannot be
\* read, a slug that was persisted resolves as long as the pipeline exists,
\* and with a remote a build is filed under its own pipeline or the configured
\* one.
RegistrationHolds == CollisionHasCause /\ PersistedSlugResolves /\ FiledUnderOwn

-----------------------------------------------------------------------------
(* What the program tells its user, and does not do.                        *)

\* init.rs:158, "`hm run` will now use Harmont Cloud by default": the config
\* hm init has written is one hm run can read.
LinkedProjectRuns == \A r \in Runs : run[r].why # "unparsed"

=============================================================================
