# harmont-cli in TLA+

This directory is a formal model of `hm`, the Harmont command line: TLA+ modules
translated from the source, TLC configurations that check them on small
instances, and TLAPS proofs that hold for every pipeline. Paths below are relative
to `src/crates/` unless they start with `src/`; `PROJECT.json` maps every
definition to the lines it models and lists components, runs, mutants, findings,
hazards and theorems.

Contents: 1 inventory, 2 how the modules fit together, 3 the modules and the code,
4 what the runs check, 5 what is proved, 6 where code and documents disagree,
7 what is not modelled, 8 how to run it.

## 1. Inventory

`hm run` asks the DSL engine for a pipeline DAG, hands it to a backend and renders
the events the backend emits. The local backend runs the DAG in containers and
keeps the image of every cached step; the cloud backend submits the same build and
polls for its progress.

| Part | State it keeps | Operations | Talks to | Module |
|---|---|---|---|---|
| Local scheduler `hm-core/src/exec/local/scheduler.rs` | one shared future per step, a semaphore, the build's cancellation token, outcomes | gate, admit, launch, publish, deadline, drain, reap, verdict, chain numbers | runner, event bus, `hm run` through the token | `Scheduler`, `Chains` |
| VM step runner `hm-core/src/exec/local/runner/` | none of its own | choose image and archive, race the execution against the token, report cache hits, reap images | HmVm, event bus | `Scheduler`, `Workspace` |
| HmVm `hm-vm/src/vm.rs` | none of its own | cache check, create or restore, inject, exec, snapshot, put, remove what was evicted, destroy | registry, Docker | `ImageCache`, `Workspace` |
| Image registry `hm-vm/src/registry.rs` | SQLite table (key, snapshot id, accessed_at), 64 rows, shared by every `hm` process of the user; a mutex per process | get (touches), put, evict_overflow, invalidate, all_snapshot_ids | HmVm, `hm cache clean` | `ImageCache` |
| Docker backend `hm-vm/src/docker.rs` | containers and images in the daemon | create, restore, inject, exec, commit, destroy, remove; a clean-up task spawned on drop | daemon | `ImageCache`, `Workspace`, `StepOutput` |
| Event bus `hm-core/src/exec/local/events.rs` and its forwarder | broadcast ring of 1024, channel of 1024 | emit, forward, skip what lagged, drain on teardown (2 s) | scheduler, renderer | `LocalFeed` |
| Cloud backend and watcher `hm-core/src/exec/cloud/` | started streams, ended jobs, log token, one line buffer per stream | submit, poll, stream logs, cancel, final reconciliation | the cloud API, renderer | `CloudWatch`, `StepOutput` |
| `hm run` `hm/src/commands/run/mod.rs`, `hm/src/signal.rs`, `hm/src/main.rs` | chosen backend, running build, renderer task | checks before a start, git facts, registration, submission (one retry after creating the pipeline), wait, Ctrl-C, exit code | backends, renderer, config files | `RunFront`, `SourceMeta`, `HmRun` |
| Renderers `hm-render/` | per-step and root progress, outcomes, report | apply an event, lay out names and durations | event stream | `LocalFeed`, `StepOutput`, `Display` |
| Credentials and login `hm-core/src/creds/`, `hm-cloud/src/auth.rs` | `~/.hm/creds/token` | open (tighten modes), write atomically, delete, browser and paste login | disk, cloud API | `Credentials` |
| Configuration `hm-core/src/config/` | user and project `config.toml` | layered read, read-modify-write of the project's | `hm run`, `hm init` | `HmRun`, `RunFront` |
| `hm init` `hm/src/commands/init.rs` | template, skills, `.gitignore`, link to the cloud | write what is missing | disk | `Scaffold` |
| `hm cache` `hm/src/commands/cache/` | none | clean, save, restore | registry, Docker | `ImageCache` (clean) |
| harmont-py lowering `hm-dsl-engine/harmont-py/` | the graph it builds | lower chains, resolve cache keys | `hm run` | `Workspace` (keys) |
| Pipeline IR, DSL engine, cloud verbs, toolchains, utilities | files, text | parse, spawn Python, one request each | | partly or not at all, section 7 |

What is hard in each, and what makes it correct:

| Part | Hard behaviour | Correct when |
|---|---|---|
| Scheduler | every step is a task; failure, step timeout, deadline and Ctrl-C meet in one token; a gate that is looked at once, before the wait for a permit | no permit is lost, a failure seals its descendants, a child starts from its parent's image, the verdict has a cause, every build returns |
| HmVm, registry, Docker | a future dropped at any await; three lock sections per put; two processes on one table; stale rows; best-effort removals | the registry stays bounded, what is evicted is returned, no image or container is forgotten on a path that went well, a parent's image is there for its child |
| Boxes and cache keys | the key is planned from the files, the archive packed later, the image as old as the cache, the user editing meanwhile | a step sees the project as packed over its own lineage, no failed step's image is ever booted |
| `hm cache clean` | list, remove, unlink in three steps beside running builds | no image is forgotten but those of the builds it races |
| Event bus and renderer | a lossy ring in front of a bounded channel; a timed teardown; a renderer that lags, blocks or dies | what is lost is a lag or the teardown's timeout, order is kept, the end arrives, the summary is true |
| Cloud watcher | polling against log streams against a final listing; an expiring token; cancellation | each job is announced once and closed, its lines come between, the verdict is the server's, the watch ends |
| `hm run` | answers lost after the server has acted; Ctrl-C before, during and after start; two invocations on one config file | one build per invocation, exit 0 only for a build that passed, an orphaned build has a cause, the registration resolves |
| Login | a token handed out once, a poll that sleeps across its deadline, processes killed amid a write | the stored token is whole, no token that was handed out is dropped by the poll |
| `hm init` | repeated, cut and forced runs beside the user's edits | the user's work stays, entries are there once |
| Log lines, layout, chains | frames that end anywhere, wide and zero-width graphemes, graphs with forks and parallel edges | lines as written, cuts that fit and map back, chains that partition the graph |

## 2. How the modules fit together

```
DagBuild   <=implements=  Scheduler   (proved and checked)
LossyFifo  <=implements=  LocalFeed   (proved and checked)
BuildFeed  <=implements=  CloudWatch  (proved and checked)
RunFront -> SourceMeta -> HmRun -> { Scheduler | CloudWatch } -> LocalFeed, StepOutput, Display
                                      Scheduler -> ImageCache, Workspace
```

Arrows say whose outcome is whose input. The modules meet at narrow interfaces,
which is where they are cut:

- `Scheduler` and `ImageCache` share the step's life and split its images: uncached
  steps commit ephemeral images, which only the scheduler removes; cached steps
  commit tagged ones, which only the registry evicts. In `Scheduler` a cached
  parent's image is taken to exist when a child restores it; `ParentsRestorable` in
  `ImageCache` is where that is checked, and under which condition it holds.
  `Workspace` says what is in the images both of them only name.
- `LocalFeed` takes the per-step event order that `StreamsClosed` of `Scheduler`
  promises; `BuildFeed` states the same contract for the cloud, and `CloudWatch`
  implements it.
- `HmRun` takes a backend's outcome as given by the watch (`CloudWatch`) or by the
  scheduler, and adds the encodings of the verdict up to the process's exit code.
- `StepOutput` is what one step of `LocalFeed` or `CloudWatch` calls a log line.
- `Splits` has what `StepOutput` and `SourceMeta` both do to a text: cut it at a separator,
  trim its end, pick some of its characters.

`MCTools` runs the seven modules a build does not interleave with (`Workspace`,
`Scaffold`, `StepOutput`, `Display`, `Chains`, `RunFront`, `SourceMeta`) side by side:
a behaviour is a behaviour of one of them while the others rest in one initial state.

Left to do, in order: a fault for failing SQL statements in `ImageCache`, the lowering of
harmont-py as a pure function, `hm cache save` and `restore`.

## 3. The modules and the code

### DagBuild
What any build promises: a step starts only on the success of everything before
it, what does not start has a reason, nothing settles twice, and the build returns
when everything has settled. It models no code by itself.

### Scheduler
`hm-core/src/exec/local/scheduler.rs`, with the parts of `runner/vm.rs` and
`hm-vm/src/vm.rs` that answer a step.

- The constants are the pipeline (`Steps`, `BuildsIn`, `DependsOn`) and its options.
  The model never asks whether the DAG is acyclic; the proofs hold without it.
- `pc[s]` is where the task of a step stands: `waiting` for its predecessors,
  `queued` for a permit, `running` in `VmRunner`'s select, `committed` (image
  committed, the commit not answered or the container not destroyed yet), `ending` (future settled, epilogue of
  `execute_step`), `done` (outcome published). `result[s]` stands for the
  `StepOutcome`, with the way the step ended; a skipped step's exit code 0 is why
  results and not exit codes are kept.
- The steps of a task are the code's awaits. `ShortCircuit` and `Admit` are
  the reading of the token and of the outcomes; `Launch` is everything from the permit
  to the runner's call; `CacheHit`, `Commit`, `Succeed`, `Fail` are the runner's
  answers; `CutShort` and `StepTimeout` drop its future; `Publish` is the epilogue with
  ChainFailed, fail-fast and the permit's return.
- The build task is `Deadline`, `Drained`, `Reap`, `Conclude`; `Interrupt` is
  the first Ctrl-C.
- The daemon's commit is one action, whatever becomes of its answer: from `committed` a
  step succeeds, is dropped, or fails (`Fail`: the commit's answer is an error or comes after
  the client's ten minutes), and then nobody knows its image.
- `interrupted` and `unreaped` are history variables that no action reads.

### ImageCache
`HmVm::execute` for steps with a cache key, with `registry.rs`, `docker.rs` and
`hm cache clean`.

- A job is one call of `execute`; `ProcOf` places it in an `hm` process. `at[j]`
  walks through the code: `Lookup` (registry.get), `Probe` (snapshot_exists),
  `Invalidate`, `Create` and `Start` (start_container's two requests), `Run` (inject and
  exec), `Commit`, then put in its lock sections `Insert`, `Count`, `Select`, `Delete`,
  then `RemoveImage` per evicted row, `Take` and `Destroy` (DockerVm::destroy takes the
  container id before its first request).
- `SELECT` and `DELETE` share one lock section of the process and are two
  statements for the database: they are two actions, and `MutexFree` keeps the jobs
  of the same process, not those of another one, out of the space between them.
- `rows[f]` is a registry file as the sequence of its keys in eviction order. A
  touch sets `accessed_at` to the current second: `Touched` lets the row move to any
  place from where it is to the end, which covers every tie. A snapshot id is the
  tag the key spells, so a key names its image.
- `Drop` is a cancellation or timeout at any await; what becomes of the container
  depends on who holds its id (`box`): a whole handle spawns a clean-up (`sweep`), a
  container created but not yet started has no handle, and a handle whose id was
  taken cleans nothing. `Exit` is the end of `main` or a kill; clean-ups end with it.
- `excused`, `crowded` and `displaced` are history variables: the tags a drop, a kill or a daemon
  error left behind, whether a put found the registry too full, and the tags that one selected or
  `hm cache clean` listed. No action's guard reads them.
- `List`, `CleanOne`, `Unlink` are `hm cache clean`. Processes that had the file
  open go on using it; the file `second` is the one the next process creates.

### LossyFifo and LocalFeed
`events.rs`, the forwarder and the teardown of `scheduler.rs`, `drive_stream` of
`hm-render/src/lib.rs`, and the books of `progress.rs` and `human.rs`.

- Events travel as numbers; `emitted` is everything the bus was given, the ring is
  its last `Ring` entries, `cursor` what the forwarder reads next. `Lag` moves the
  cursor to the oldest entry left; `Forward` waits for room in the channel.
- `stage` is the build's task: after `BuildEnd` it waits for the forwarder
  (`draining`), and `TearDown` is the two-second limit after which the forwarder is
  left running on its own.
- The renderer takes an event (`Take`), may panic (`dead`) or block while it
  writes (`stuck`), and ends at `BuildEnd` or when all senders are gone.
- A step's end has code 0, 1 or 130 (its command's own), a failing one of a fail-fast build
  is followed by ChainFailed. The build's end has the verdict's code: 130 and 124 may come
  whatever the steps' codes are, for Ctrl-C or the deadline may come after the last step's end.
- `Progress` is `ProgressRenderer` as a fold over what it was given: order of
  steps, outcome, failures, report and banner. `LossyFifo` is what the whole path is
  to the renderer: a queue that may miss items and never reorders or repeats them.

### BuildFeed and CloudWatch
`cloud/watch.rs` and the task of `CloudBackend::start`.

- `watch` walks the poll loop await by await: mint the log token, list the jobs, then
  for each entry of the listing announce it, start it, spawn its stream; ask for the
  build; when it is terminal drain the streams, list again, sweep what is not closed
  and send `BuildEnd`. Any request may fail, with the code's reaction to each failure.
- `stream[j]` is a job's stream task: it can be turned away at its start with a stale token,
  in its middle with one that was good (`StreamExpires`), both of which the renderer is told,
  and its connection can break, of which it is told nothing.
- `Cancelled` is the select that drops the watch on Ctrl-C. Dropping the watch aborts the
  streams whose handles its guard still has (`aborting`); the drain has taken them out of the
  guard (`guard.0.drain(..)`), so a watch dropped there lets them go on. `CancelBuild` is the
  request that follows.
- `queue` is the bounded channel; a send waits for room and fails when the renderer is
  gone. `lost`, `stale` and `unlisted` are history variables.
- `BuildFeed` is what a renderer may rely on, per step and over the build.

### HmRun
`hm/src/commands/run/mod.rs`, `signal.rs`, the error and exit-code mapping, the
layers of the backend's configuration, `hm init`'s link.

- `run[r]` is one invocation: where it stands, the configuration it has read, the
  pipeline it resolved, its exit code and, as history, why it ended.
- `world` is how the project is set up: the user's config, a remote or none, what the server
  discovered, and `configured`, the slug in the project's config at the start, if any. That one
  wins over the remote and over the pipeline asked for (run/mod.rs:221).
- `pipelines` and `builds` are the server's. `Submit` may be refused, may be answered
  "no such pipeline" (the one retry after `Create`), and may be served without the
  answer arriving (`LoseAnswer`). Slugs are the server's choice: `shaped` says whether
  they are the pipeline's own name.
- The project's `config.toml` is persisted by reading, changing and rewriting it
  (`read`, `truncate`, `write`), by two invocations at once and beside `hm init`.
- `CtrlC` comes before the handler is installed, during the watch and a second time.

### Credentials
`creds/mod.rs`, `hm-common/src/fs.rs`, `hm-cloud/src/auth.rs`.

- `proc[p]` is a process from opening the store (`MakeDir`, `List`, walking and
  tightening the entries) over one of five commands (browser login, pasted code,
  log-out, use of the stored token, use of the environment's) to its end.
- `files` has the token and each process's temporary file, with contents and mode; a
  file is truncated, written and renamed in steps, and `Kill` may come between any two.
- `nonce[p]` is what the server has parked, `late[p]` that the claim's time is over.

### Workspace
`keygen.py`, `source.rs`, `archive.rs`, `cache.rs`, and the flow of files through
`runner/vm.rs`, `vm.rs` and `docker.rs`.

- `Plan` computes the keys from the files as they are, `Pack` the archive later; the user
  edits files and commands at any time (`EditFile`, `EditCommand`). A box is its files and
  the steps whose commands ran in it: the source image overlaid with the archive.
- A tag is what the code names an image by: step, policy hash and parent's tag for a
  cached step, a fresh label for an ephemeral one.
- An image's `fate` is who names it: a step's outcome or the registry (`named`), nobody because
  the commit's answer was lost, the step dropped or hm killed (`unnamed`), nobody any more
  because its removal failed (`stuck`). `Commit` and `CommitLost` make one, `Fails` makes none;
  a cached step dropped after its row was put failed and is served from the cache next time.
  `Finish` removes what the outcomes name, as many of them as the daemon removes; a hit needs
  a named image.

### Scaffold
`init.rs`, `detect.rs` and `write_create_all`. A run is the list of what is left to
write; every file is truncated and written in two steps, `.gitignore` is read, changed
and rewritten per entry, a run may be cut after any of them, and the user edits between
the runs and during the prompts.

### StepOutput, Display, Chains
`docker.rs` and `watch.rs` from bytes to lines with `escape.rs`; `ellipsis.rs`,
`align.rs` and `format.rs`; `compute_chain_info`. The state is the input under
construction (a command's output, a label, a graph); the algorithms are operators and the
invariants compare them with reference definitions over every input within the bounds.
A text is split by flattening one row per character (`FlattenSeq`), the line that ends there or
none, so that what splitting does to a longer text can be proved.

### RunFront and SourceMeta
`main.rs`, the first steps of `hm run` and of `hm cloud build watch`, `select_renderer`,
`capabilities.rs`; `git.rs` with the parsing of a remote's URL. `touched` records that
Docker was asked for a connection. In `SourceMeta` each fact is a git process of its own
and the user's git moves between them; `tips` records every tip a branch had. A URL is a
sequence of tokens: one of the `Authorities` (scheme and host, with or without a user; the
scp-like `host:` with or without one; none), then a path (`IsPath`: names set off by slashes,
the last may end in .git).

## 4. What the runs check

Everything below is checked for every interleaving of the instance. Properties that
belong together are checked as one conjunction of named parts; the parts are stated and
commented one by one in the modules.

| Run | Instance | What it shows |
|---|---|---|
| `failfast` | 4 steps: a chain of 3 and a lint the last one waits for; 2 permits, deadline, one timed and one cached step | a child's parent image is alive, launched steps close their streams, leaks and verdicts are accounted for; a cancelled or overdue build returns though commands hang |
| `keepgoing` | 5 steps: fork of two off a base, an independent step, one without a runner; `-k`, 2 permits | a failure seals its descendants through skipped steps too, permits are conserved, the scheduler implements `DagBuild`, every step settles |
| `cache_solo` | 1 process, 3 jobs, 3 keys, 1 row; drops, kills, daemon errors | bounded registry, the mutex covers the selection, evictions returned, images tracked; a parent's image goes only by an eviction from a registry that was too full |
| `cache_shared` | 2 processes building the same step, a child; rows for all keys; clean, drops, kills, daemon errors | a container stays only if the daemon refused its removal or its start, or its step was dropped; a clean forgets only images of builds it raced |
| `cloud` | 2 jobs, one listed twice; 1 line each; a channel of 1 | the feed is well formed (`BuildFeed`) and complete but for broken streams, expired tokens are told, the verdict is the server's, Ctrl-C ends the watch, and the run but for streams that an interrupted drain let go |
| `localfeed` | 2 steps, one of which may hit the cache or log a line; ring of 7, channel of 1 | only lag loses events, the path is a lossy FIFO, the summary is true, teardown and renderer end |
| `hmrun` | 2 invocations, 2 pipelines, 10 setups of a project, at most 2 builds | one build per invocation, exit 0 means passed, orphans have causes, the registration resolves, the pinned domain survives |
| `creds` | 2 processes and an old token | the stored token is whole, a claimed one is kept, a browser login ends |
| `tools` | see below | the seven modules of `MCTools`, one at a time |
| `exit130`, `cache_mismatch`, `linkbreaks` | small | section 6 |

**Bounds.** Four steps with two permits are enough for two steps to run while a third
waits for a permit and a fourth for its predecessors, for a failure two edges away
from a step, and for a parent and a child on different sides of the deadline. The
fork adds siblings on one image and a predecessor that is unrelated to it. A
registry of one row with three keys makes every put evict, and lets three jobs be
in `put` at once; in `cache_shared` the registry has as many rows as there are keys, so that
images go by the clean alone. A channel of one
event makes every sender wait, and a build here has up to twelve events, so that a ring of seven
is overwritten while the forwarder stands still. Two invocations or processes are what races on one file need. In `tools`:
two files and five steps (two cached, a fork, a grandchild) with two builds, one edit and one
fault (an exit code or a commit lost, a removal that fails, a kill), so that the second build
hits images of the first beside what it left behind; two runs of `hm init` with two touches;
four characters from five kinds (a line's end, a character that a frame cuts, both kinds of
control characters); four graphemes (narrow, wide, zero-width, blank) under eight budgets;
every graph of four nodes with up to four edges, cycles included; every command line
and world; two branches, three commits and two moves of the user's. The bounds on edits, runs,
commits and builds are guards of the environment's actions; no state constraint is used.

**Deadlock** is checked in the scheduler, cache, `hmrun` and `creds` runs. The cloud and
local feeds stop when everything is over, and the parts in `tools` stop at their bounds:
these cfgs say `CHECK_DEADLOCK FALSE`.

**Fairness.** Tokio polls every woken task and fires timers, so in `Scheduler` each
task's own steps are weakly fair: gate, launch, publish, cut short, timeouts,
deadline, and the build task's steps. Reaping is a Docker request with a client-side
timeout. Nothing is assumed of a command or of its clean-up in `failfast`: they may hang for
ever. `keepgoing` adds `CommandsFinish`, that each runs to its end. `Launch` is weakly fair
because the semaphore is FIFO; the model hands permits out in any order. In `CloudWatch` the
watcher, the cancellation, the renderer and the drop of aborted streams are fair; the server
may leave a build running or a stream open for ever. In `LocalFeed` the forwarder, the
renderer and the two-second timer are fair, a blocked renderer and the steps are not. In
`Credentials` each process advances and its claim's time runs out; the user need never
authorize. `HmRun` and the modules of `tools` have safety properties only.

**Mutants.** Each property of a passing run has a mutant: a definition changed the way
a plausible bug would (marked `(mutant)` in the module, next to the original), with
which TLC finds the property violated.

## 5. What is proved

TLAPS checks, for all values of the constants that satisfy the assumptions stated
in the modules (finite sets where cardinalities matter, positive capacities, total
functions, placeholders that are no member of the set they stand beside):

`SchedulerProofs`
- `Invariance`: `Spec => []IndInv`. `IndInv` says of each step that position, result
  and event stream agree (`Coherent`), that what got past the gate has only
  successes before it and starts from its parent's image (`Gated`), that what was
  cut short or never launched has a reason (`SkipCause`), that images in use have not
  been reaped (`ImageKept`), that a cancelled token has a cause (`CancelCause`), and
  how the build task's phase relates to the steps (`PhaseOK`). None of the properties
  is inductive alone: `FailureSealsDescendants` needs `Gated` of every step on the way,
  `LineageAlive` needs that reaping starts when all tasks are done, `VerdictExplained`
  needs the cause of the token.
- From it: `TypeCorrect`, `PermitsAreConserved`, `FailureSeals` (over arbitrarily long
  paths: the steps that are never launched include the children of a step that did not
  pass, and are closed under edges), `LineageIsAlive`, `PassedIsHonest`,
  `VerdictIsExplained`, `LeaksAreAccounted`.
- `StreamsAreClosed`: the property `StreamsClosed`, along with what the stream of a step
  may be at each place of its task: it is open only while a runner has the step, and each
  of the ways out of there (answer, error, token, timeout) closes it once.
- `Refinement`: every step of the scheduler is a step of `DagBuild` or a stutter.

`ImageCacheProofs`
- `CacheInvariance`: `Spec => []IndInv`, for any number of processes, jobs and keys and
  with every fault. `WithinCapacity` charges each row above the capacity to a job
  between its `Insert` and the end of its eviction (or killed there). It is inductive
  with two facts: a job that has begun keeps its file, and a job that is to
  evict has something to evict, so a `Delete` of an overfull file pays its charge.
- `CapacityHolds`: the property itself.
- `SoleProcessReturnsEvicted`: when all jobs belong to one process, what `DELETE` takes is
  what `SELECT` returned. The invariant is mutual exclusion of the jobs between the two
  statements and that the selection is still the front of the file (`SelectionHolds`).
  The assumption is needed: `cache_mismatch` is the counterexample without it.
- `NoImageForgotten`: the property `ImagesTracked`, for jobs of one process that have a key
  each, while nobody cleans. Each assumption is needed. Of two jobs with one key the
  second can put the row that the first, having found the old image gone, then
  invalidates (vm.rs:68): the image stays without a row. The steps of a pipeline
  have distinct keys, so this takes two processes.
- `ParentsStay`: the property `ParentsRestorable`, for any number of processes, any capacity
  and number of keys, and every fault. An image goes by an eviction or by `hm cache clean`; the
  invariant follows what a put has counted (`Displacing`: a job on its way to select and remove
  has found its registry too full, and what it is to remove is on record), what is removed
  (`Removing`), and the tag of a step that passed (`PassedTagged`). With more keys than rows a
  put may evict a parent before its child restores it; the child fails then.
- `CleaningForgetsRacersOnly`: the property `OnlyRacingBuildsForgotten`, while all keys fit in
  the registry. Its invariant follows both files: before the unlinking everyone has the first;
  after it an image is in a row, on the cleaner's list, excused, or its key is of a job that
  has the first file open.
- `BoxesAreDestroyed`: the property `BoxesDestroyed`, whatever the daemon refuses. Its invariant
  says for each place of a job who holds the container's id (`BoxHeld`). A container that was
  created and does not start belongs to nobody (docker.rs:93): the property names that case.

`LocalFeedProofs`, for any steps, lines, ring and channel
- `PathInOrder`: the numbers in the channel rise; all of them are above what the renderer
  took last and below what the forwarder holds, and that is below the cursor.
- `PathIsFifo`: the whole path implements `LossyFifo`. A take shows the head of the
  channel, which by `PathInOrder` is later than everything shown before.
- `OnlyLag`: the property `OnlyLagLoses`. Its invariant adds that the build's end is the
  last event there is (`BuildOK`), that while the renderer goes on the newest event is
  either in front of the forwarder or the last one on its way (`PathOK`: this is why a
  lag, which drops the oldest, can never drop the end), and that without a lag
  each event sits at its own place (`Exact`).
- `SummaryTrue`: the property `SummaryIsTrue`. `StreamOK` is about what is emitted: one
  announcement and one end of a step at most, nothing of it after its end but that its chain
  failed, and a build's end whose code is 0 only if all steps ended with 0, and 0, 124 or 130 if
  they did (`VerdictOK`). Without a lag the renderer is given exactly the
  emitted events (`Exact`); `BooksOK` says what its books hold after n of them, by
  induction over n.

`CloudWatchProofs`, for any jobs, listing, log length and channel
- `WatchInvariance`: `VInv` says where streams may be at each place of the watcher
  (`PlaceOK`: nobody has been closed before the sweep, and then all streams are gone), what
  each outcome needs and that an end of the build in the channel carries the outcome
  (`VerdictOK`), and that only events about a job name one (`AboutOK`).
- `Verdict`: the property `VerdictIsServers`, whatever the server answers and whoever dies.
- `FeedImplements`: the watch implements `BuildFeed`. `FInv` orders the messages in the channel
  against each other and against what was shown (`FeedOK`: of two messages about a job the later
  may follow the earlier, and each has what it needs before it), and says what the
  renderer was told, or will be, of each job as the watcher and the streams stand
  (`Told`: a job that no stream was started for is unheard of, one with an open stream has
  begun, an end is told only of closed jobs). The invariant is needed because the queue lies
  between: the sender's place says nothing of what was shown.
- `FeedComplete`: the property `FeedIsComplete`. `CInv` counts: lines shown and lines in the
  channel are the lines sent, as long as the renderer takes them (`CountOK`); a stream that
  finished without being lost has sent its whole log, one that was refused or expired has its
  notice to send, or sent, and was refused only with a stale token (`StreamsOK`); after the last listing every announced job is closed, still to be swept, or
  the running job of a canceled build, which the sweep leaves alone (`SweepOK`);
  the end of the build is the last message, and once it is under way nothing moves
  (`OverOK`).

`HmRunProofs`, for any number of invocations in one project, any pipelines, domains and
setups (`SetupsAssumption`: the file is missing, names docker, or names the cloud, with a domain
and a slug or without, with a remote or without)
- `RunInvariance`: `IInv` says what an invocation knows at each place of the
  registration (`KnowsOK`), how it stands with its builds (`BuildsOK`: none before it submits, a
  passed one if it exits 0, a running one only with a cause), and that the project has one
  domain (`HomeOK`): as long as nobody read the config amid a rewrite there is a domain that the
  file, each copy of it about to be written, and each invocation agree upon, and the
  slug beside it is known there, unless it was configured from the start. The domain is an existential of the invariant
  because no variable holds it while the file is truncated.
- `BuildsAreAccounted`, `ZeroIsPassed`, `RegistrationIsSound`: the properties
  `BuildsAccounted`, `ZeroMeansPassed`, `RegistrationHolds`.
- `DomainIsKept`: the action property `DomainSurvives`, from the same invariant.

`ToolsProofs`, what is in boxes and images, for any files, steps and policies (`AcyclicAssumption`: `builds_in` has no
cycle; `CachedParentsAssumption`: a cached step builds on cached ones, which the lowering
enforces; `EphemeralAssumption`: no step is called as the ephemeral images' repository)
- `BoxInvariance`: `IInv` says what a key hashed (`KeyOK`), that without an edit in between
  the archive is what the keys were made of (`BuildOK`), what a tag says of its image
  (`ImageOK`), and that a box is its parent's image with the archive over it, where a file
  that the archive has not got comes from a hit among its ancestors (`RunningOK`, `PassedOK`).
  `ImageOK` speaks of images of any build, because a hit makes an old image the base
  of new boxes, and it says that an uncached image somebody could name is named by a step of
  the build under way that passed. That keys exist at all, each made of its parent's, is proved by well-founded
  recursion over the chains.
- `BoxesAreTheProject` and `ImagesAreTheirOwn`: the properties `BoxIsProject` and
  `ImagesAreOwn`.

`ToolsProofs`, the rest, for any flags, terminal, configuration and daemon, any entries and skills, any graph
(`EntriesAssumption`: the entries are none of the user's lines; `SkillsAssumption`: a skill has
a file of its own), any text, budget and duration (`GraphemesAssumption`, `AmountsAssumption`:
sizes, widths, budgets and milliseconds are natural numbers)
- `FrontDecides`: the property `FrontIsSound`. `FrontInv` says what has been decided and
  checked at each place before the start.
- `ScaffoldHolds`: the property `ScaffoldKeeps`. `ScaffoldInv` says how what is left to do is
  ordered (`TodoOK`: a template comes first, all its entries right behind it, and what is left
  of a truncated file is to fill it) and that once a template of hm's is there each entry is
  listed, still to be written, or a run was cut short (`IgnoreOK`).
- `ChainsHold`: the property `ChainsAreRight`, for a graph of any size, cyclic or not. By
  induction over the walk a chain from a step has none twice and goes on as long as it may
  (`ChainIs`; it ends because there are no more steps than `Size`); by induction over the steps
  the chains so far are disjoint and hold with a step its lineage child too (`ListOK`),
  so that, where steps come after what they boot from, none starts in the middle of a
  lineage. `Recursion` says that such a recursive function exists.
- `LayoutHolds`: the property `LayoutIsRight`, for graphemes of any width (zero too) and any
  number of bytes. What leading graphemes take (`Used`) never shrinks, so the longest run that
  fits is one and the next grapheme is what no longer does. `CutShape` and `CutCase` say how each
  cut comes out: where the head ends and the tail begins, that they do not overlap, and which
  budget each had; that a cut fits, is the longest, and that its source index is the byte's
  follow from those two. What is left of a duration after a unit is less than the unit,
  so the units add up to it.

`TextProofs`, for any branches and moves of the user (`BranchesAssumption`: git refuses a branch
called HEAD), any URL of the grammar (`UrlsAssumption`: an authority, then a path, whose names
are none of the other tokens), and whatever a command writes (`AlphabetAssumption`: in the
classes of characters the model tells apart)
- The lemmas about texts come first: what flattening, cutting, trimming and picking make of a
  text with one character more, and of two texts joined. Each is an induction over the
  length, by the least length at which a fact fails.
- `MetaHolds`: the property `MetaIsOfCheckout`, from `CommitIsItsBranchs` (each tip a branch had
  is on record, so the commit read for a name is one of them) and `RepoIsItsRemotes`. For the second the
  segments of a path are shown to be its names, each by itself, the last with its .git cut off;
  an authority takes no name with it, but for the first name of a path without a slash
  before it.
- `OutputHolds`: the property `OutputComesThrough`. `OutputInv` says where the output is on its way.
  Locally (`Framed`) each stream is whole lines that were framed, then bytes framed since,
  then bytes unsent, and as long as no line went on in the next frame the events are the lines of the
  first two parts; decoding what was encoded gives the text back (`LossyEncoded`), and
  a cut behind a newline cuts between two characters (`EncodedCut`). A text without wide
  characters needs no such care: its frames lose nothing wherever they end. On the cloud
  (`Chunked`) some head of each stream was sent, its lines that ended are the events, and what is
  behind its last newline is in the buffer if the stream was the last to get a chunk; when
  chunks of both met in one line only the number of characters is kept. The heads are an
  existential of the invariant because no variable holds them.

`CredentialsProofs`, for any number of processes, each killed or failing anywhere
- `Invariance`: `IInv` says that the token is never torn and no file is there without
  the directory (`FilesOK`), that a process's temporary file is its own and as far
  as the process has come (`TmpOK`), that what the walk has not tightened is still before it
  (`WalkOK`), how each way of ending came about (`OutOK`), and how a browser login
  stands with the server (`NonceOK`).
- `StoreSound` and `NoTokenIsMissed`: the properties `StoreIsSound` and `NoTokenMissed`.
  The first needs `TmpOK` (a rename publishes a whole file because nobody else
  writes to the renamed one), the second `NonceOK` (a poll that sleeps while the token is
  parked asks once more).

Only model-checked:
- all liveness (`BuildTerminates`, `AllStepsFinish`, `RunEnds`, `FeedEnds`,
  `BrowserLoginEnds`), since the prover has no ENABLED.

The induction theorems of the library cannot be cited, for they take an operator. Where a
definition is a function recursive over `0..n`, `SummaryTrue`, `ChainsHold`, `LayoutHolds` and
`TextProofs` take the least argument at which a fact fails instead (`Least`).

## 6. Where code and documents disagree

Each of the first three is a run in which TLC finds a documented property violated;
`PROJECT.json` quotes the lines.

- `exit130`: without `-k`, a step that fails by itself cancels the token, and the
  verdict looks at the token before the outcomes: the build ends Canceled with exit
  code 130, which the documentation reserves for Ctrl-C.
- `cache_mismatch`: between `SELECT` and `DELETE` of one put, another process touches a
  row: a row is deleted whose image was not returned, and its image stays.
- `linkbreaks`: `hm init` writes `backend = "cloud"`, which no `hm run` can parse: a
  linked project cannot run at all.

Met while modelling, in the models' behaviours, without a run of their own.

Scheduler and cache:
- A step whose runner returns an error (image pull, restore, no such runner) fails
  without cancelling its siblings and without ChainFailed (keep_going.rs:2).
- A step that waits for a permit when the build is cancelled is announced and launched
  all the same, then cut short (scheduler.rs:286).
- The overflow is counted in one lock section and acted on in the next: a put can evict from
  a registry that no longer overflows, its own image included (registry.rs:187).
- scheduler.rs:539 says that a step cut short reports 130; the runner bails instead
  and the step is summarised Failed with exit code 1.
- scheduler.rs:303 collects "every such snapshot the steps produced"; a step
  dropped between its commit and its answer, or whose commit answers with an error after the
  daemon has made the image (vm.rs:130), has produced one that no outcome names
  (`LeaksAccounted` and `EphemeralsReaped` say that these, failed removals and kills are all).
- vm.rs:49 promises best-effort clean-up even on failure paths; a container that was created and does
  not start has no handle yet and stays (docker.rs:88-96; `BoxesDestroyed` says that this is the
  only one besides refused removals and drops).
- registry.rs:126 says that `invalidate` returns the id "so the caller can clean up";
  `HmVm::execute` discards it, and when another process has rebuilt the image after
  the probe, a tagged image stays without a row.
- clean.rs:27 removes images before the file because the registry is their only
  index; a build that commits between the listing and the unlinking leaves an image
  in no index (`OnlyRacingBuildsForgotten` says that these are all).
- executor.rs:60 says of `MissNoCommit` "do not commit"; HmVm commits an ephemeral image.
- StepQueued's `chain_idx` is the position in a chain (scheduler.rs:406), ChainFailed's the
  number of the chain (487, 526); the doc of `compute_chain_info` names a
  `PipelineGraph::chains()` that does not exist.

Boxes, keys and output:
- The key is planned before the archive is packed: an edit in between poisons the cache
  entry. A file deleted from the project survives in boxes booted from cached images.
- The on_change key hashes contents and neither names nor the command, and skips missing
  paths (keygen.py:121-123, against the docstring at 151-152).
- An `inspect_exec` without an exit code counts as 0 (docker.rs:306). Docker's frames
  cut lines and wide characters; on the cloud one buffer shared by stdout and stderr joins
  partial lines of both (watch.rs:419).
- In harmont-py's lowering: two waits in a row lose the barrier (`_pipeline.py:104-105`,
  `_step.py:160`), a duplicate `key=` gives a wrong builds_in parent, `fork()` of a base
  image drops the image, cycles are found by a function's name, and a `print` in a
  pipeline file spoils the JSON on standard output. `pythonpath()` replaces an inherited
  PYTHONPATH.

Events and renderers:
- A build whose steps all ended with 0 can end with 130 or 124, and its banner says that it
  failed. A command that itself exits with 130 is shown as cancelled, and its log not replayed.
- A cached step is counted twice on the progress bar, and its outcome is overwritten by
  that of its end (progress.rs:288). A cancelled build shows the banner "Build failed".
- After the teardown's two seconds the forwarder goes on by itself.
- A multi-line command without a label makes a multi-line display name; labels are never
  shortened; step keys and messages of chains are not escaped, only log lines are.
- `hm cloud build watch` on a terminal picks the progress renderer, though main.rs installs
  the layer that draws it only for `hm run`; main.rs:24 and `wants_color` read NO_COLOR
  by different rules.

Cloud:
- watch.rs:35 says that no detached tasks outlive `watch_build`; the drain takes the handles out
  of the guard (watch.rs:247), so a Ctrl-C during the drain detaches the streams that are left,
  and `hm run` waits for them as long as the server holds them open (run/mod.rs:272), or until a
  second Ctrl-C.
- A canceled job ends with exit code 1 and not 130 (watch.rs:277); a skipped job gets
  StepEnd without StepQueued. Joining the streams has no time limit. The error path of the
  watch never closes the renderer.
- `map_harmont_err` ignores the status, so a gateway's 5xx after the server accepted the build
  is reported as an ordinary failure (exit 7), and Ctrl-C before the handler is installed
  leaves an accepted build running.
- An error of `control.wait()` skips the join of the renderer.

Configuration and front:
- The configured slug wins over the pipeline argument, with a remote as without one, and stays
  when the project is given a remote later (run/mod.rs:221).
- With `docker` in the project and the cloud in the user's file, `--backend cloud` ignores
  the user's domain, and registration turns the project to the cloud without a domain.
  The file is rewritten by truncating it: a reader or a crash in between loses the
  pinned domain.
- `--no-watch` on docker is refused only after Docker was connected (capabilities.rs:1 says
  before a start). `--branch X` records X with HEAD's commit; a tag named like the branch
  shadows it; a remote `host:owner/repo` without a user counts as no remote (git.rs:242).
- detect.rs:5, 11 and 25 promise .py or .ts, the code finds .py.
- `hm init`: a torn pipeline file counts as a pipeline; entries that were cut off stay
  missing without `--force`; a skill written by an older hm is reported as edited; linking
  rewrites the whole config.toml, which its doc calls sparse; cancelling the skills prompt
  is an error, cancelling the cloud prompt is not.

Login:
- Any transport error ends the three-minute poll. A login that is killed leaves
  `token.tmp.<pid>`. Opening the store fails when another process renames or removes a file
  amid the walk (creds/mod.rs:58). The doc of `login_interactive`
  (commands/cloud/mod.rs:16) speaks of a failure that `CredsProvider::set` only logs.
  `hm cloud org switch` can lose another process's update.

## 7. What is not modelled, and why

- harmont-py: the construction and lowering of the graph (pure, sequential) and the
  toolchain helpers (text of shell commands). The cache keys are in `Workspace`.
- DSL engine: spawning Python and reading its JSON is process I/O; that a rendering may fail
  is in `RunFront`. Parsing and validation of the IR are serde's.
- Renderers: JSON, styles, ticking bars. Wording of events and the environment of steps.
- `hm cache save` and `restore` (they move files), cloud verbs other than `build watch` (one
  request, one table), the process capture, the discovery of Python, whoami's table.
- The base image's pull is part of a step that succeeds or fails. Exit codes other than 0,
  130, those of errors and "nonzero" are folded.
- SQLite is trusted: each statement is atomic, waits for the lock and succeeds; a
  WAL file left beside a deleted database is not modelled. The clock does not run backwards.
- A commit to a tag that exists leaves the image it replaced untagged; such dangling
  images, which `docker image prune` removes, are not tracked.

## 8. How to run it

    tlc -config MCScheduler_failfast.cfg MCScheduler
    tlc -config MCScheduler_keepgoing.cfg MCScheduler
    tlc -config MCImageCache_solo.cfg MCImageCache
    tlc -config MCImageCache_shared.cfg MCImageCache
    tlc -config MCCloudWatch.cfg MCCloudWatch
    tlc -config MCLocalFeed.cfg MCLocalFeed
    tlc -config MCHmRun.cfg MCHmRun
    tlc -config MCCredentials.cfg MCCredentials
    tlc -config MCTools.cfg MCTools

and, expected to end with a counterexample,

    tlc -config MCScheduler_exit130.cfg MCScheduler
    tlc -config MCImageCache_mismatch.cfg MCImageCache
    tlc -config MCHmRun_linked.cfg MCHmRun

    tlapm SchedulerProofs.tla        tlapm LocalFeedProofs.tla
    tlapm ImageCacheProofs.tla       tlapm CloudWatchProofs.tla
    tlapm CredentialsProofs.tla      tlapm HmRunProofs.tla
    tlapm TextProofs.tla             tlapm ToolsProofs.tla

The longest runs (`cloud`, `localfeed`, `tools`: up to one and a half million states)
take two to three minutes each; a proof module takes one to eight.
