------------------------------ MODULE RunFront ------------------------------
(***************************************************************************)
(* What a command decides before a build starts: main.rs on the terminal   *)
(* and the progress bars, hm run (run/mod.rs) on the backend, the sign-in, *)
(* the pipeline, the renderer and the flags, hm cloud build watch          *)
(* (verbs/build.rs) on its renderer.  The order is the point: what can be  *)
(* refused cheaply is refused before Docker is asked for anything, and the *)
(* layer that draws the bars is installed long before a renderer that      *)
(* needs it is chosen.                                                     *)
(***************************************************************************)
EXTENDS Naturals

VARIABLES
  line,    \* the command line
  world,   \* what the command finds: terminal, environment, config, project
  front,   \* what it decided, and where it is
  touched  \* history: it asked Docker for a connection

frontVars == <<line, world, front, touched>>

Command == {"run", "watch"}

CONSTANTS
  Backends,  \* what --backend is given, "none" where it is not
  Formats    \* what --format is given

Line ==
  [command : Command, backend : Backends, cloud : BOOLEAN, format : Formats,
   logs : BOOLEAN, noWatch : BOOLEAN]

World ==
  [stdout : BOOLEAN, stderr : BOOLEAN, ci : BOOLEAN,   \* terminals, a CI runner
   config : {"docker", "cloud"}, signedIn : BOOLEAN,    \* the backend key; a token and an org
   renders : BOOLEAN, daemon : BOOLEAN]                 \* one pipeline, and it renders; Docker is up

Begun == [pc |-> "main", bars |-> FALSE, backend |-> "none", renderer |-> "none", refused |-> FALSE]

FrontInit ==
  /\ line \in Line
  /\ line.command = "watch" =>
       line.backend = "none" /\ ~line.cloud /\ line.format = "human" /\ ~line.logs /\ ~line.noWatch
  /\ world \in World
  /\ front = Begun
  /\ touched = FALSE

At_(pc) == front.pc = pc
Goes(pc) == front' = [front EXCEPT !.pc = pc]
Refuses == front' = [front EXCEPT !.pc = "over", !.refused = TRUE]

-----------------------------------------------------------------------------
(* main: the layer for progress bars.                                       *)

Bars == ~world.ci /\ world.stderr /\ line.command = "run" /\ ~line.logs /\ line.format = "human"

Main ==
  /\ At_("main")
  /\ front' = [front EXCEPT !.bars = Bars, !.pc = IF line.command = "run" THEN "backend" ELSE "watch"]
  /\ UNCHANGED <<line, world, touched>>

-----------------------------------------------------------------------------
(* hm run.                                                                  *)

\* (mutant) the alias wins over --backend
BackendNameAliasFirst ==
  CASE line.cloud -> "cloud" [] ~line.cloud /\ line.backend # "none" -> line.backend [] OTHER -> world.config

BackendName ==
  CASE line.backend # "none"              -> line.backend
    [] line.backend = "none" /\ line.cloud -> "cloud"
    [] OTHER                              -> world.config

\* The backend is known, and a cloud one has a token and an organization.
ChooseBackend ==
  /\ At_("backend")
  /\ IF BackendName = "docker" \/ (BackendName = "cloud" /\ world.signedIn)
     THEN front' = [front EXCEPT !.pc = "render", !.backend = BackendName]
     ELSE Refuses
  /\ UNCHANGED <<line, world, touched>>

\* render_pipeline and Plan::parse
RenderPlan ==
  /\ At_("render")
  /\ IF world.renders THEN Goes("renderer") ELSE Refuses
  /\ UNCHANGED <<line, world, touched>>

\* renderer_for
RendererFor(format, logs) ==
  CASE format = "json"             -> "json"
    [] format = "human" /\ logs    -> "human"
    [] format = "human" /\ ~logs   -> "progress"
    [] OTHER                       -> "none"

UseLogs == line.logs \/ world.ci \/ ~world.stderr

PickRenderer ==
  /\ At_("renderer")
  /\ IF RendererFor(line.format, UseLogs) = "none" THEN Refuses
     ELSE front' = [front EXCEPT !.pc = "connect", !.renderer = RendererFor(line.format, UseLogs)]
  /\ UNCHANGED <<line, world, touched>>

Connect ==
  /\ At_("connect")
  /\ touched' = (front.backend = "docker")
  /\ IF front.backend = "docker" /\ ~world.daemon THEN Refuses ELSE Goes("flags")
  /\ UNCHANGED <<line, world>>

\* Capabilities: what each backend takes of the flags.
Capable(backend) == [noWatch |-> backend = "cloud"]

Flags ==
  /\ At_("flags")
  /\ IF line.noWatch /\ ~Capable(front.backend).noWatch THEN Refuses ELSE Goes("start")
  /\ UNCHANGED <<line, world, touched>>

-----------------------------------------------------------------------------
(* hm cloud build watch.                                                    *)

Watch_ ==
  /\ At_("watch")
  /\ IF world.signedIn
     THEN front' = [front EXCEPT !.pc = "start", !.backend = "cloud",
                                 !.renderer = RendererFor("human", ~world.stdout)]
     ELSE Refuses
  /\ UNCHANGED <<line, world, touched>>

FrontNext == Main \/ ChooseBackend \/ RenderPlan \/ PickRenderer \/ Connect \/ Flags \/ Watch_

-----------------------------------------------------------------------------
(* Correctness.                                                             *)

\* Docker is asked for a connection only for a run that nothing else than its
\* flags and Docker itself can refuse any more (run/mod.rs:97, 103).
FailsFast ==
  touched =>
    /\ BackendName = "docker" /\ world.renders
    /\ line.format \in {"human", "json"}

\* What starts is what was asked for: on the backend named first, else the
\* alias's, else the config's; signed in where that is needed; without a watcher
\* only where that can be had.
StartsAsAsked ==
  At_("start") /\ line.command = "run" =>
    /\ line.backend # "none" => front.backend = line.backend
    /\ line.backend = "none" /\ ~line.cloud => front.backend = world.config
    /\ front.backend = "cloud" => world.signedIn
    /\ front.backend = "docker" => world.daemon /\ ~line.noWatch

\* The layer that draws the bars is there exactly when hm run's renderer needs
\* it: main.rs and run/mod.rs decide it apart, from the same facts.  hm cloud
\* build watch goes by stdout and never has the layer: on a terminal it shows
\* nothing before the summary.
BarsAreDrawn ==
  At_("start") /\ line.command = "run" => (front.bars <=> front.renderer = "progress")

\* The decisions before a start, taken at different places from the same flags
\* and world: what refuses a run does so before Docker is touched, the backend
\* is the one asked for and is usable, and the bars have their layer.
FrontIsSound == FailsFast /\ StartsAsAsked /\ BarsAreDrawn

=============================================================================
