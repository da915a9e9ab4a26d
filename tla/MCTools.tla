------------------------------- MODULE MCTools -------------------------------
(* The parts of hm that a build does not interleave with: a behaviour is one  *)
(* of one of them, the others rest in one initial state.                      *)
EXTENDS Workspace, Scaffold, StepOutput, Display, Chains, RunFront, SourceMeta

VARIABLE part

CONSTANTS source, lockfile, v1, v2, base, dep, test, pack, lint

MCWatched == <<source, lockfile>>
MCParentOf == base :> NoStep @@ dep :> base @@ test :> dep @@ pack :> test @@ lint :> dep
MCPolicy == base :> "on_change" @@ dep :> "forever" @@ test :> "none" @@ pack :> "none" @@ lint :> "none"
MCSkills == <<"validate-ci">>
MCOurs == <<"node_modules/", "__pycache__/">>
MCGraphemes == {[w |-> 1, b |-> 1, blank |-> FALSE], [w |-> 2, b |-> 4, blank |-> FALSE],
                [w |-> 0, b |-> 3, blank |-> FALSE], [w |-> 1, b |-> 1, blank |-> TRUE]}
MCBudgets == {0, 1, 2, 3, 4, 5, 7, 9}
MCUrls ==
  {<<"https", "://", "host", "/", "group", "/", "owner", "/", "repo", ".git", "/">>,
   <<"https", "://", "host", "/", "owner", "/", "repo", ".git">>,
   <<"git", "@", "host", ":", "owner", "/", "repo", ".git">>,
   <<"host", ":", "owner", "/", "repo">>,
   <<"https", "://", "host", "/", "repo", "/">>,
   <<"host", ":", "/", "owner", "/", "repo">>,
   <<"/", "home", "/", "owner", "/", "repo">>}

ALine == [command |-> "run", backend |-> "none", cloud |-> FALSE, format |-> "human",
          logs |-> FALSE, noWatch |-> FALSE]
AWorld == [stdout |-> TRUE, stderr |-> TRUE, ci |-> FALSE, config |-> "docker", signedIn |-> TRUE,
           renders |-> TRUE, daemon |-> TRUE]

ToolsInit ==
  /\ part \in {"workspace", "scaffold", "output", "display", "chains", "front", "git"}
  /\ IF part = "workspace" THEN Init ELSE tree = Empty /\ Init
  /\ IF part = "scaffold" THEN ScaffoldInit ELSE other = FALSE /\ ScaffoldInit
  /\ IF part = "output" THEN OutputInit ELSE place = "local" /\ OutputInit
  /\ DisplayInit /\ ChainsInit
  /\ IF part = "front" THEN FrontInit ELSE line = ALine /\ world = AWorld /\ FrontInit
  /\ IF part = "git" THEN GitInit
     ELSE head = "main" /\ heads = [b \in Branches |-> IF b = "main" THEN 1 ELSE 0] /\ origin = NoUrl
          /\ GitInit /\ meta.asked = ""

ToolsNext ==
  /\ UNCHANGED part
  /\ \/ /\ part = "workspace" /\ Next
        /\ UNCHANGED <<scaffold, output, display, edges, frontVars, gitVars>>
     \/ /\ part = "scaffold" /\ ScaffoldNext
        /\ UNCHANGED <<vars, output, display, edges, frontVars, gitVars>>
     \/ /\ part = "output" /\ OutputNext
        /\ UNCHANGED <<vars, scaffold, display, edges, frontVars, gitVars>>
     \/ /\ part = "display" /\ DisplayNext
        /\ UNCHANGED <<vars, scaffold, output, edges, frontVars, gitVars>>
     \/ /\ part = "chains" /\ ChainsNext
        /\ UNCHANGED <<vars, scaffold, output, display, frontVars, gitVars>>
     \/ /\ part = "front" /\ FrontNext
        /\ UNCHANGED <<vars, scaffold, output, display, edges, gitVars>>
     \/ /\ part = "git" /\ GitNext
        /\ UNCHANGED <<vars, scaffold, output, display, edges, frontVars>>

ToolsSpec == ToolsInit /\ [][ToolsNext]_<<part, vars, scaffold, output, display, edges, frontVars, gitVars>>

=============================================================================
