----------------------------- MODULE Workspace -----------------------------
(***************************************************************************)
(* What the steps of local builds see in their boxes.  A build plans the   *)
(* cache keys from the project's files (keygen.py), packs the files into   *)
(* an archive (source.rs, archive.rs), and gives each step a box           *)
(* (runner/vm.rs, hm-vm/src/vm.rs, docker.rs): the image its parent handed *)
(* down with the archive laid over it.  The user edits the project while   *)
(* builds run, and the cache outlives the builds.                          *)
(*                                                                         *)
(* A box is its files and the steps whose commands ran in it.  Eviction    *)
(* and other processes are ImageCache's matter, permits and the causes of  *)
(* a failure (an error, the deadline, Ctrl-C) Scheduler's.                 *)
(***************************************************************************)
EXTENDS Naturals, SequencesExt

CONSTANTS
  Files,      \* the files of the project that the walk does not filter out
  Watched,    \* the paths of on_change, a sequence
  Versions,   \* contents of files
  Steps,
  ParentOf,   \* [Steps -> Steps \cup {NoStep}]: builds_in
  NoStep,
  Policy,     \* [Steps -> {"none", "forever", "on_change"}]
  MaxEdits,   \* bounds the user's edits
  MaxBuilds,  \* bounds the builds
  MaxFaults   \* bounds the exit codes and commits lost, the failed removals and the kills

ASSUME ProjectAssumption ==
  /\ ToSet(Watched) \subseteq Files
  /\ NoStep \notin Steps /\ ParentOf \in [Steps -> Steps \cup {NoStep}]
  /\ MaxEdits \in Nat /\ MaxBuilds \in Nat /\ MaxFaults \in Nat
\* builds_in has no cycle (scheduler.rs:151): among any steps is one whose parent
\* is not of them.
ASSUME AcyclicAssumption ==
  \A S \in SUBSET Steps : S # {} => \E s \in S : ParentOf[s] \notin S
\* Ephemeral images are tagged in a repository of their own (scheduler.rs:309).
ASSUME EphemeralAssumption == "ephemeral" \notin Steps
ASSUME PolicyAssumption == Policy \in [Steps -> {"none", "forever", "on_change"}]
\* _lookup_parent raises for a cached step whose parent is not.
ASSUME CachedParentsAssumption ==
  \A s \in Steps : Policy[s] # "none" /\ ParentOf[s] # NoStep => Policy[ParentOf[s]] # "none"

VARIABLES
  tree,     \* the project's files
  cmd,      \* the version of each step's command
  edits,    \* how many edits there were
  faults,   \* how many codes and commits were lost, removals failed and builds killed
  build,    \* the build under way
  archive,  \* its source archive
  job,      \* its steps: where they are, their box and image
  images    \* the daemon's images, by tag

vars == <<tree, cmd, edits, faults, build, archive, job, images>>
project == <<tree, cmd, edits>>
outside == <<project, faults>>

Absent == "absent"
Empty == [f \in Files |-> Absent]
NoTag == <<>>

Idle == [at |-> "waiting", tag |-> NoTag, files |-> Empty, ran |-> {}, hit |-> FALSE]
Nowhere == [s \in Steps |-> Idle]
At(s, where) == job[s].at = where

\* A build at rest; its plan is a record of the keys and what they were made from.
Rest(n) == [no |-> n, phase |-> "rest", keys |-> [s \in Steps |-> NoTag], seen |-> Empty,
            cmds |-> cmd, unpacked |-> {}, raced |-> FALSE]

Init ==
  /\ tree \in [Files -> {Absent} \cup Versions]
  /\ cmd = [s \in Steps |-> 0]
  /\ edits = 0 /\ faults = 0
  /\ build = Rest(0)
  /\ archive = Empty
  /\ job = Nowhere
  /\ images = <<>>

\* So many more codes or commits are lost, removals fail or builds are killed.
Faulty(n) == faults + n \in 0..MaxFaults /\ faults' = faults + n

In(phase) == build.phase = phase
Ends(phase) == build' = [build EXCEPT !.phase = phase]

-----------------------------------------------------------------------------
(* The user.                                                                *)

Edited ==
  /\ edits < MaxEdits /\ edits' = edits + 1
  /\ build' = [build EXCEPT !.raced = @ \/ In("planned") \/ In("packing")]
  /\ UNCHANGED <<faults, archive, job, images>>

EditFile(f) ==
  /\ \E v \in ({Absent} \cup Versions) \ {tree[f]} : tree' = [tree EXCEPT ![f] = v]
  /\ Edited
  /\ UNCHANGED cmd

EditCommand(s) ==
  /\ cmd' = [cmd EXCEPT ![s] = @ + 1]
  /\ Edited
  /\ UNCHANGED tree

-----------------------------------------------------------------------------
(* Planning: the cache keys.                                                *)

\* What on_change hashes: the contents of the paths that are there, in order.
Contents(files) ==
  LET there(f) == files[f] # Absent
      present  == SelectSeq(Watched, there)
  IN [i \in DOMAIN present |-> files[present[i]]]

PolicyResolution(s, files) ==
  CASE Policy[s] = "forever"   -> <<cmd[s]>>
    [] Policy[s] = "on_change" -> Contents(files)
    [] OTHER                   -> <<>>

\* The tag, harmont-cache/<step>:<hash of parent's key and policy>.
Tags(files) ==
  LET tag[s \in Steps] ==
        IF Policy[s] = "none" THEN NoTag
        ELSE <<s, IF ParentOf[s] = NoStep THEN <<"scratch">> ELSE tag[ParentOf[s]],
               PolicyResolution(s, files)>>
  IN tag

Plan ==
  /\ In("rest") /\ build.no < MaxBuilds
  /\ build' = [no |-> build.no + 1, phase |-> "planned", keys |-> Tags(tree), seen |-> tree,
               cmds |-> cmd, unpacked |-> Files, raced |-> FALSE]
  /\ archive' = Empty
  /\ job' = Nowhere
  /\ UNCHANGED <<outside, images>>

-----------------------------------------------------------------------------
(* Packing: the walk takes the files one by one.                            *)

Pack(f) ==
  /\ In("planned") \/ In("packing")
  /\ f \in build.unpacked
  /\ archive' = [archive EXCEPT ![f] = tree[f]]
  /\ build' = [build EXCEPT !.unpacked = @ \ {f},
                            !.phase = IF build.unpacked = {f} THEN "running" ELSE "packing"]
  /\ UNCHANGED <<outside, job, images>>

\* A file goes while it is being added, or cannot be read.
PackFails ==
  /\ In("packing")
  /\ build' = Rest(build.no)
  /\ UNCHANGED <<outside, archive, job, images>>

-----------------------------------------------------------------------------
(* A step's box.                                                            *)

Move(s, rec) == job' = [job EXCEPT ![s] = rec]
Done(s) == At(s, "passed") \/ At(s, "failed")
Ready(s) == In("running") /\ At(s, "waiting") /\ (ParentOf[s] # NoStep => At(ParentOf[s], "passed"))
\* The registry names the key's image, and the daemon has it.
Cached(s) ==
  /\ build.keys[s] # NoTag /\ build.keys[s] \in DOMAIN images
  /\ images[build.keys[s]].fate = "named"

Hit(s) ==
  /\ Ready(s) /\ Cached(s)
  /\ Move(s, [job[s] EXCEPT !.at = "passed", !.tag = build.keys[s], !.hit = TRUE])
  /\ UNCHANGED <<outside, build, archive, images>>

\* ImageSource: the parent's snapshot, or the image of a root.
Source(s) ==
  IF ParentOf[s] # NoStep THEN images[job[ParentOf[s]].tag] ELSE [files |-> Empty, ran |-> {}]

\* (mutant) the workspace goes into the roots' boxes only
OverlayAtRoot(s) ==
  [f \in Files |-> IF archive[f] = Absent \/ ParentOf[s] # NoStep THEN Source(s).files[f] ELSE archive[f]]

\* The upload adds and overwrites; it deletes nothing.
Overlay(s) == [f \in Files |-> IF archive[f] = Absent THEN Source(s).files[f] ELSE archive[f]]

\* The box is booted, the archive is extracted and injected into it.
Boot(s) ==
  /\ Ready(s) /\ ~Cached(s)
  /\ Move(s, [job[s] EXCEPT !.at = "running", !.files = Overlay(s), !.ran = Source(s).ran])
  /\ UNCHANGED <<outside, build, archive, images>>

\* Booting, extracting, injecting, the command, its stream or the commit fails,
\* or the step is cancelled, and there is no image.
Fails(s) ==
  /\ (Ready(s) /\ ~Cached(s)) \/ At(s, "running")
  /\ Move(s, [Idle EXCEPT !.at = "failed"])
  /\ UNCHANGED <<outside, build, archive, images>>

\* (mutant) ephemeral:latest, for all
LabelLatest(s) == IF build.keys[s] = NoTag THEN <<"ephemeral", "latest">> ELSE build.keys[s]

\* An uncached image is tagged with the container's id.
Label(s) == IF build.keys[s] = NoTag THEN <<"ephemeral", s, build.no>> ELSE build.keys[s]

\* inspect_exec may not have the exit code yet; none is taken for 0.
ExitedWell(s, ended) == ended \in {"well", "unheard"}

\* A tag names the image it was given last.
Tagged(t, image) ==
  [u \in DOMAIN images \cup {t} |-> IF u = t THEN image ELSE images[u]]

\* The image made of s's box once its command ended.
Image(s, ended, fate) ==
  [files |-> job[s].files,
   ran   |-> IF ended = "well" THEN job[s].ran \cup {s} ELSE job[s].ran,
   cmd   |-> build.cmds[s], raced |-> build.raced, lost |-> ended = "unheard", fate |-> fate]

Endings == {"well", "badly", "unheard"}

Committed(s, ended, fate) ==
  /\ At(s, "running")
  /\ ExitedWell(s, ended)
  /\ images' = Tagged(Label(s), Image(s, ended, fate))
  /\ UNCHANGED <<project, build, archive>>

\* The command ends, the box is committed, and the step's outcome or the
\* registry names the image.
Commit(s) ==
  /\ \E ended \in Endings :
       /\ Committed(s, ended, "named")
       /\ Faulty(IF ended = "unheard" THEN 1 ELSE 0)
  /\ Move(s, [Idle EXCEPT !.at = "passed", !.tag = Label(s)])

\* The daemon has committed the box, but answers with an error or too late, or
\* the step is dropped before or after its row is put.
CommitLost(s) ==
  /\ \E ended \in Endings, fate \in {"unnamed", "named"} :
       /\ fate = "named" => build.keys[s] # NoTag
       /\ Committed(s, ended, fate)
  /\ Faulty(1)
  /\ Move(s, [Idle EXCEPT !.at = "failed"])

Skip(s) ==
  /\ In("running") /\ At(s, "waiting") /\ ParentOf[s] # NoStep /\ At(ParentOf[s], "failed")
  /\ Move(s, [Idle EXCEPT !.at = "failed"])
  /\ UNCHANGED <<outside, build, archive, images>>

IsEphemeral(t) == t[1] = "ephemeral"

\* The ephemeral images that the steps' outcomes name.
Outcomes == {t \in {job[s].tag : s \in {x \in Steps : At(x, "passed")}} : IsEphemeral(t)}

Marked(S, fate) ==
  [t \in DOMAIN images |-> IF t \in S THEN [images[t] EXCEPT !.fate = fate] ELSE images[t]]

BuildOver ==
  /\ build' = Rest(build.no)
  /\ archive' = Empty /\ job' = Nowhere
  /\ UNCHANGED project

\* Once every step is done what the outcomes name is reaped; removing any of it
\* may fail.
Finish ==
  /\ In("running") /\ \A s \in Steps : Done(s)
  /\ \E stuck \in SUBSET Outcomes :
       /\ images' = Restrict(Marked(stuck, "stuck"), DOMAIN images \ (Outcomes \ stuck))
       /\ Faulty(Cardinality(stuck))
  /\ BuildOver

\* hm is killed: no outcome names its images any more.
Killed ==
  /\ ~In("rest")
  /\ images' = Marked(Outcomes, "unnamed")
  /\ Faulty(1)
  /\ BuildOver

\* Nothing is left to do: every build and every edit has been.
Over == In("rest") /\ build.no = MaxBuilds /\ edits = MaxEdits /\ UNCHANGED vars

Next ==
  \/ \E f \in Files : EditFile(f) \/ Pack(f)
  \/ \E s \in Steps :
       \/ EditCommand(s) \/ Hit(s) \/ Boot(s) \/ Fails(s)
       \/ Commit(s) \/ CommitLost(s) \/ Skip(s)
  \/ Plan \/ PackFails \/ Finish \/ Killed \/ Over

Spec == Init /\ [][Next]_vars

-----------------------------------------------------------------------------
(* Correctness.                                                             *)

\* The steps s builds upon: the least set with its parent and their parents.
Ancestors ==
  LET Closed(S) == \A a \in S : ParentOf[a] \in S \cup {NoStep}
  IN [s \in Steps |->
        {a \in Steps : \A S \in SUBSET Steps : Closed(S) /\ ParentOf[s] \in S \cup {NoStep} => a \in S}]

TypeOK ==
  /\ tree \in [Files -> {Absent} \cup Versions]
  /\ edits \in 0..MaxEdits /\ faults \in 0..MaxFaults /\ build.no \in 0..MaxBuilds
  /\ archive \in [Files -> {Absent} \cup Versions]
  /\ \A s \in Steps : At(s, "passed") => job[s].tag \in DOMAIN images
  /\ \A s \in Steps : ~In("running") => At(s, "waiting")

\* A command sees every file of the archive as it was packed, however old the
\* image its box was booted from (runner/vm.rs:93).
SeesArchive ==
  \A s \in Steps, f \in Files : At(s, "running") /\ archive[f] # Absent => job[s].files[f] = archive[f]

\* A command sees a file the project no longer has only if an ancestor's image
\* was served from the cache: the overlay deletes nothing.
GhostsAreInherited ==
  \A s \in Steps, f \in Files :
    At(s, "running") /\ archive[f] = Absent /\ job[s].files[f] # Absent =>
      \E a \in Ancestors[s] : job[a].hit

\* In its box have run the commands of its own ancestors, all of them and no
\* other step's, except one whose exit code was lost.
LineageIsOwn ==
  \A s \in Steps : At(s, "running") =>
    /\ job[s].ran \subseteq Ancestors[s]
    /\ ParentOf[s] # NoStep /\ ~images[job[ParentOf[s]].tag].lost => ParentOf[s] \in job[s].ran

\* What the cache serves for on_change was built from what the watched paths
\* hold now, in their order, and what it serves for forever was built by the
\* present command, unless the project was edited between the planning and the
\* packing of the build that stored it.
HitIsCurrent ==
  \A s \in Steps : job[s].hit =>
    LET image == images[job[s].tag] IN
      /\ Policy[s] = "on_change" =>
           image.raced \/ ParentOf[s] # NoStep \/ Contents(image.files) = Contents(build.seen)
      /\ Policy[s] = "forever" => image.cmd = build.cmds[s]

\* What a running step sees is the project as it was packed: its own files and
\* those of ancestors that came from the cache, and a hit is one the policy
\* allows for the project the key was planned from.
BoxIsProject == TypeOK /\ SeesArchive /\ GhostsAreInherited /\ HitIsCurrent

\* An image holds its own step's command, ended well: one that failed leaves
\* none, however its commit went, unless the daemon had no exit code for it
\* (docker.rs:306).
FailedLeavesNoImage ==
  \A t \in DOMAIN images, s \in Steps :
    (IF IsEphemeral(t) THEN t[2] ELSE t[1]) = s /\ ~images[t].lost => s \in images[t].ran

\* An uncached image is named by a step of the build under way that passed,
\* until its removal is tried (scheduler.rs:306): what stays behind is what
\* could not be removed, or was committed for a step that errs or is dropped
\* (vm.rs:130), or for a build that is killed.
EphemeralsReaped ==
  \A t \in DOMAIN images : IsEphemeral(t) /\ images[t].fate = "named" => t \in Outcomes

\* What an image holds: the steps of one lineage and no other, never a step
\* that failed, and none stays behind that its build could have reaped.
ImagesAreOwn == LineageIsOwn /\ FailedLeavesNoImage /\ EphemeralsReaped

=============================================================================
