------------------------------ MODULE Scaffold ------------------------------
(***************************************************************************)
(* hm init (init.rs), run again and again in one project: the pipeline     *)
(* template, the .gitignore beside it, the skills and the link to an       *)
(* organization, each written only where nothing of the user's is lost.    *)
(* Between the runs the user edits the files and upgrades hm; a run may    *)
(* die anywhere.                                                           *)
(*                                                                         *)
(* A file is a record: who wrote what it holds ("nobody" while it does not *)
(* exist, "torn" when a write was cut short) and the version of hm that    *)
(* did.  A .gitignore is the sequence of its lines and whether the last    *)
(* one is ended.                                                           *)
(***************************************************************************)
EXTENDS Naturals, SequencesExt

CONSTANTS
  Skills,      \* the bundled skills, a sequence
  Ours,        \* the entries init keeps in .gitignore, a sequence
  Theirs,      \* lines of the user's own
  MaxRuns,     \* bounds the runs of hm init
  MaxTouches   \* bounds what the user does in between

ASSUME EntriesAssumption == Ours \in Seq(ToSet(Ours)) /\ ToSet(Ours) \cap (Theirs \cup {""}) = {}
\* Skills have files of their own (init.rs:212).
ASSUME SkillsAssumption ==
  Skills \in Seq(ToSet(Skills)) /\ ToSet(Skills) \cap {"pipeline.py", "config.toml"} = {}
ASSUME RunsAssumption == MaxRuns \in Nat /\ MaxTouches \in Nat

VARIABLES
  files,     \* the template file, the skills and the config
  other,     \* whether .hm holds another pipeline
  ignore,    \* .gitignore
  version,   \* of hm
  init,      \* the run under way: its flags and what is left to do
  runs,
  touches,
  cut        \* a run died here and left .gitignore or a file incomplete

scaffold == <<files, other, ignore, version, init, runs, touches, cut>>

Names == {"pipeline.py", "config.toml"} \cup ToSet(Skills)
Missing == [by |-> "nobody", of |-> 0]
NoFile == [there |-> FALSE, lines |-> <<>>, ended |-> TRUE]
NoRun == [force |-> FALSE, todo |-> <<>>]

ScaffoldInit ==
  /\ files = [n \in Names |-> Missing]
  /\ other \in BOOLEAN
  /\ ignore = NoFile
  /\ version = 1
  /\ init = NoRun
  /\ runs = 0 /\ touches = 0
  /\ cut = FALSE

ThereIs(n) == files[n].by # "nobody"
Bundled == [by |-> "hm", of |-> version]
HasPipeline == other \/ ThereIs("pipeline.py")
Resting == init.todo = <<>>

-----------------------------------------------------------------------------
(* A run: what it sets out to do.                                           *)

Put(what, n) == [do |-> what, on |-> n]
Template == <<Put("template", "pipeline.py")>> \o [i \in DOMAIN Ours |-> Put("ignore", Ours[i])]

\* A --template, or a choice at the prompt, unless there is a pipeline already
\* and neither flag was given; without a terminal and a flag the run ends here.
\* The cloud link and the skills are agreed to at the terminal.
RunInit(flag, force, tty, link, skills) ==
  LET skip == ~flag /\ HasPipeline /\ ~force IN
  /\ Resting /\ runs < MaxRuns
  /\ skip \/ flag \/ tty
  /\ link \/ skills => tty
  /\ init' = [force |-> force,
              todo  |-> (IF skip THEN <<>> ELSE Template)
                        \o (IF link THEN <<Put("link", "config.toml")>> ELSE <<>>)
                        \o (IF skills THEN [i \in DOMAIN Skills |-> Put("skill", Skills[i])] ELSE <<>>)]
  /\ runs' = runs + 1
  /\ UNCHANGED <<files, other, ignore, version, touches, cut>>

Doing(what) == ~Resting /\ init.todo[1].do = what
Item == init.todo[1].on
Proceed(n) == init' = IF n = Len(init.todo) THEN NoRun
                   ELSE [init EXCEPT !.todo = SubSeq(@, n + 1, Len(@))]

-----------------------------------------------------------------------------
(* A run: the writes.  Each truncates the file, then fills it.              *)

\* (mutant) what handle saw before the prompt is good enough
HasPipelineNow == FALSE

\* write_template looks again: the user may have been at the prompt for long.
PipelineNow == HasPipeline

Truncate(n) ==
  /\ files' = [files EXCEPT ![n] = [by |-> "torn", of |-> version]]
  /\ init' = [init EXCEPT !.todo = <<Put("finish", n)>> \o Tail(@)]

WriteTemplate ==
  /\ Doing("template")
  /\ IF PipelineNow /\ ~init.force
     THEN Proceed(1 + Len(Ours)) /\ UNCHANGED files
     ELSE Truncate("pipeline.py")
  /\ UNCHANGED <<other, ignore, version, runs, touches, cut>>

\* A skill that is there is left alone: it is either as bundled or edited.
Keep(n) == ThereIs(n) /\ ~init.force

WriteSkill ==
  /\ Doing("skill")
  /\ IF Keep(Item) THEN Proceed(1) /\ UNCHANGED files ELSE Truncate(Item)
  /\ UNCHANGED <<other, ignore, version, runs, touches, cut>>

\* The whole config is replaced.
WriteLink ==
  /\ Doing("link")
  /\ Truncate("config.toml")
  /\ UNCHANGED <<other, ignore, version, runs, touches, cut>>

WriteContents ==
  /\ Doing("finish")
  /\ files' = [files EXCEPT ![Item] = Bundled]
  /\ Proceed(1)
  /\ UNCHANGED <<other, ignore, version, runs, touches, cut>>

\* The lines with the entry after them; a last line without its newline gets it
\* first, and so does an empty file.
Appended(entry) ==
  IF ignore.lines = <<>> /\ ignore.there THEN <<"", entry>> ELSE Append(ignore.lines, entry)

Listed(entry) == \E i \in DOMAIN ignore.lines : ignore.lines[i] = entry

EnsureIgnored ==
  /\ Doing("ignore")
  /\ ignore' = IF Listed(Item) THEN ignore ELSE [there |-> TRUE, lines |-> Appended(Item), ended |-> TRUE]
  /\ Proceed(1)
  /\ UNCHANGED <<files, other, version, runs, touches, cut>>

\* The run is killed, or a write fails; .gitignore may have been truncated.
Die ==
  /\ ~Resting
  /\ init' = NoRun
  /\ \/ UNCHANGED ignore
     \/ Doing("ignore") /\ ~Listed(Item) /\ ignore' = [NoFile EXCEPT !.there = TRUE]
  /\ cut' = TRUE
  /\ UNCHANGED <<files, other, version, runs, touches>>

-----------------------------------------------------------------------------
(* The user, at any time but amid a write.                                  *)

Touch == touches < MaxTouches /\ ~Doing("finish") /\ touches' = touches + 1 /\ UNCHANGED <<init, runs, cut>>

EditProjectFile(n) ==
  /\ Touch
  /\ files' = [files EXCEPT ![n] = [by |-> "user", of |-> touches]]
  /\ UNCHANGED <<other, ignore, version>>

DeleteFile(n) ==
  /\ Touch /\ ThereIs(n)
  /\ files' = [files EXCEPT ![n] = Missing]
  /\ UNCHANGED <<other, ignore, version>>

AddLine(l, ended) ==
  /\ Touch
  /\ ignore' = [there |-> TRUE, lines |-> Append(ignore.lines, l), ended |-> ended]
  /\ UNCHANGED <<files, other, version>>

Upgrade ==
  /\ Touch /\ Resting
  /\ version' = version + 1
  /\ UNCHANGED <<files, other, ignore>>

ScaffoldNext ==
  \/ \E flag, force, tty, link, skills \in BOOLEAN : RunInit(flag, force, tty, link, skills)
  \/ WriteTemplate \/ WriteSkill \/ WriteLink \/ WriteContents \/ EnsureIgnored \/ Die
  \/ \E n \in Names : EditProjectFile(n) \/ DeleteFile(n)
  \/ \E l \in Theirs, ended \in BOOLEAN : AddLine(l, ended)
  \/ Upgrade

-----------------------------------------------------------------------------
(* Correctness.                                                             *)

ScaffoldTypeOK ==
  /\ \A n \in Names : files[n].by \in {"nobody", "hm", "user", "torn"} /\ files[n].of \in Nat
  /\ runs \in 0..MaxRuns /\ touches \in 0..MaxTouches
  /\ ~ignore.there => ignore.lines = <<>>
  /\ \A n \in Names : files[n].by = "torn" => cut \/ (Doing("finish") /\ Item = n)

\* What the user wrote, before the run or during its prompts, goes only where
\* --force was given; the link alone replaces the config regardless.
UserWorkKept ==
  [][touches' = touches =>
       \A n \in Names : files[n].by = "user" =>
         files'[n] = files[n] \/ init.force \/ n = "config.toml"]_scaffold

\* The user's lines of .gitignore stay, whole and in their order, unless a run
\* is cut short while it rewrites the file; what is added is not the user's
\* (init.rs:252).
TheirLinesKept ==
  [][touches' = touches =>
       \/ /\ \A i \in DOMAIN ignore.lines : i \in DOMAIN ignore'.lines /\ ignore'.lines[i] = ignore.lines[i]
          /\ \A i \in DOMAIN ignore'.lines : ignore'.lines[i] \in Theirs \ {""} => i \in DOMAIN ignore.lines
       \/ cut' /\ Resting']_scaffold

\* However often init runs, an entry is there once.
EntriesOnce ==
  \A i, j \in DOMAIN ignore.lines :
    ignore.lines[i] = ignore.lines[j] /\ ignore.lines[i] \in ToSet(Ours) => i = j

\* Beside a template that init wrote are its entries, unless a run was cut
\* short: then no later one adds them, for it finds a pipeline.
EntriesThere ==
  Resting /\ files["pipeline.py"].by = "hm" /\ ~cut => ToSet(Ours) \subseteq ToSet(ignore.lines)

\* hm init, however often it runs and wherever it is cut: .gitignore gets each
\* entry once and keeps the user's lines, a pipeline of hm's comes with its
\* entries, and what the user wrote stays unless it was forced or is linked.
ScaffoldKeeps ==
  [](ScaffoldTypeOK /\ EntriesOnce /\ EntriesThere) /\ UserWorkKept /\ TheirLinesKept

=============================================================================
