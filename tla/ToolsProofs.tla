----------------------------- MODULE ToolsProofs -----------------------------
(***************************************************************************)
(* Proofs about what a user meets around a build: what hm run decides      *)
(* before one starts, for any flags and any world; what hm init leaves     *)
(* alone, for any skills, any entries, any number of runs and touches, and *)
(* wherever a run is cut short; the chains that number the steps of a      *)
(* plan, for any graph; the names and durations a summary lays out, for    *)
(* any text, any budget, any duration; and what the steps of local builds  *)
(* see in their boxes and what the images they leave behind hold, for any  *)
(* project, any chain of steps without a cycle, any policies and any       *)
(* number of edits and builds.                                             *)
(***************************************************************************)
EXTENDS RunFront, Scaffold, Chains, Display, Workspace,
        SequenceTheorems, FiniteSetTheorems, WellFoundedInduction, TLAPS

FrontSpec == FrontInit /\ [][FrontNext]_frontVars

\* Where the command is, and what it has decided by then.
Places == {"main", "backend", "render", "renderer", "connect", "flags", "watch", "start", "over"}
Fronts ==
  [pc : Places, bars : BOOLEAN, backend : Backends \cup {"none", "docker", "cloud"},
   renderer : {"none", "json", "human", "progress"}, refused : BOOLEAN]
FrontShape == line \in Line /\ world \in World /\ front \in Fronts

\* The checks that lie behind hm run.
Past(pcs) == front.pc \in pcs
FrontInv ==
  /\ FrontShape
  /\ Past({"backend", "render", "renderer", "connect", "flags"}) => line.command = "run"
  /\ Past({"watch"}) => line.command # "run"
  /\ line.command = "run" =>
       /\ ~Past({"main", "over"}) => front.bars = Bars
       /\ Past({"render", "renderer", "connect", "flags", "start"}) =>
            front.backend = BackendName /\ (BackendName = "docker" \/ (BackendName = "cloud" /\ world.signedIn))
       /\ Past({"renderer", "connect", "flags", "start"}) => world.renders
       /\ Past({"connect", "flags", "start"}) =>
            front.renderer = RendererFor(line.format, UseLogs) /\ front.renderer # "none"
       /\ Past({"flags", "start"}) /\ front.backend = "docker" => world.daemon
       /\ Past({"start"}) /\ line.noWatch => front.backend = "cloud"
  /\ touched => BackendName = "docker" /\ world.renders /\ line.format \in {"human", "json"}

\* Of what is decided, setting one thing leaves the others.
LEMMA SetsPc ==
  ASSUME NEW f \in Fronts, NEW pc \in Places
  PROVE  LET g == [f EXCEPT !.pc = pc]
         IN /\ g \in Fronts /\ g.pc = pc /\ g.bars = f.bars /\ g.backend = f.backend
            /\ g.renderer = f.renderer
BY DEF Fronts

LEMMA SetsBars ==
  ASSUME NEW f \in Fronts, NEW bars \in BOOLEAN
  PROVE  LET g == [f EXCEPT !.bars = bars]
         IN /\ g \in Fronts /\ g.pc = f.pc /\ g.bars = bars /\ g.backend = f.backend
            /\ g.renderer = f.renderer
BY DEF Fronts

LEMMA SetsBackend ==
  ASSUME NEW f \in Fronts, NEW backend \in Backends \cup {"none", "docker", "cloud"}
  PROVE  LET g == [f EXCEPT !.backend = backend]
         IN /\ g \in Fronts /\ g.pc = f.pc /\ g.bars = f.bars /\ g.backend = backend
            /\ g.renderer = f.renderer
BY DEF Fronts

LEMMA SetsRenderer ==
  ASSUME NEW f \in Fronts, NEW renderer \in {"none", "json", "human", "progress"}
  PROVE  LET g == [f EXCEPT !.renderer = renderer]
         IN /\ g \in Fronts /\ g.pc = f.pc /\ g.bars = f.bars /\ g.backend = f.backend
            /\ g.renderer = renderer
BY DEF Fronts

LEMMA SetsRefused ==
  ASSUME NEW f \in Fronts
  PROVE  LET g == [f EXCEPT !.refused = TRUE]
         IN /\ g \in Fronts /\ g.pc = f.pc
BY DEF Fronts

LEMMA FrontKept == FrontInv /\ [FrontNext]_frontVars => FrontInv'
<1> SUFFICES ASSUME FrontInv, [FrontNext]_frontVars PROVE FrontInv'
  OBVIOUS
<1>0. UNCHANGED <<line, world>> => UNCHANGED <<Bars, BackendName, UseLogs>>
  BY DEF Bars, BackendName, UseLogs
<1>1. CASE Main
  <2> DEFINE b == Bars
             f == [front EXCEPT !.bars = b]
             pc == IF line.command = "run" THEN "backend" ELSE "watch"
  <2>1. b \in BOOLEAN /\ pc \in Places /\ front \in Fronts
    BY DEF Bars, FrontInv, FrontShape, Places
  <2>2. front' = [f EXCEPT !.pc = pc] /\ UNCHANGED <<line, world, touched>>
    BY <1>1 DEF Main
  <2> HIDE DEF b
  <2>3. f \in Fronts /\ f.bars = b
    BY <2>1, SetsBars
  <2> HIDE DEF f
  <2>4. front' \in Fronts /\ front'.pc = pc /\ front'.bars = b
    BY <2>1, <2>2, <2>3, SetsPc
  <2>5. Bars' = b
    BY <2>2 DEF b, Bars
  <2> QED BY <1>0, <2>2, <2>4, <2>5 DEF FrontInv, FrontShape, Past
<1>2. ASSUME front' \in Fronts, front'.pc = "over", UNCHANGED <<line, world, touched>>
      PROVE  FrontInv'
  BY <1>0, <1>2 DEF FrontInv, FrontShape, Past
<1>3. Refuses => front' \in Fronts /\ front'.pc = "over"
  <2> DEFINE f == [front EXCEPT !.pc = "over"]
  <2>1. f \in Fronts /\ f.pc = "over"
    BY SetsPc DEF FrontInv, FrontShape, Places
  <2>2. Refuses => front' = [f EXCEPT !.refused = TRUE]
    BY DEF Refuses
  <2> HIDE DEF f
  <2> QED BY <2>1, <2>2, SetsRefused
<1>4. ASSUME NEW pc \in Places, Goes(pc)
      PROVE  /\ front' \in Fronts /\ front'.pc = pc /\ front'.bars = front.bars
             /\ front'.backend = front.backend /\ front'.renderer = front.renderer
  BY <1>4, SetsPc DEF Goes, FrontInv, FrontShape
<1>5. CASE ChooseBackend
  <2>0. UNCHANGED <<line, world, touched>> /\ At_("backend")
    BY <1>5 DEF ChooseBackend
  <2>1. CASE Refuses
    BY <1>2, <1>3, <2>0, <2>1
  <2>2. CASE ~Refuses
    <3> DEFINE v == BackendName
               f == [front EXCEPT !.pc = "render"]
    <3>1. v = "docker" \/ (v = "cloud" /\ world.signedIn)
      BY <1>5, <2>2 DEF ChooseBackend
    <3>2. front' = [f EXCEPT !.backend = v]
      BY <1>5, <2>2 DEF ChooseBackend
    <3>3. f \in Fronts /\ f.pc = "render" /\ f.bars = front.bars
      BY SetsPc DEF FrontInv, FrontShape, Places
    <3> HIDE DEF f, v
    <3>4. front' \in Fronts /\ front'.pc = "render" /\ front'.bars = front.bars /\ front'.backend = v
      BY <3>1, <3>2, <3>3, SetsBackend
    <3>5. v = BackendName
      BY DEF v
    <3> QED BY <1>0, <2>0, <3>1, <3>4, <3>5 DEF FrontInv, FrontShape, Past, At_
  <2> QED BY <2>1, <2>2
<1>6. CASE RenderPlan
  <2>0. UNCHANGED <<line, world, touched>> /\ At_("render")
    BY <1>6 DEF RenderPlan
  <2>1. CASE Refuses
    BY <1>2, <1>3, <2>0, <2>1
  <2>2. CASE ~Refuses
    <3>1. Goes("renderer") /\ world.renders
      BY <1>6, <2>2 DEF RenderPlan
    <3> QED BY <1>0, <1>4, <2>0, <3>1 DEF FrontInv, FrontShape, Past, At_, Places
  <2> QED BY <2>1, <2>2
<1>7. CASE PickRenderer
  <2>0. UNCHANGED <<line, world, touched>> /\ At_("renderer")
    BY <1>7 DEF PickRenderer
  <2>1. CASE Refuses
    BY <1>2, <1>3, <2>0, <2>1
  <2>2. CASE ~Refuses
    <3> DEFINE v == RendererFor(line.format, UseLogs)
               f == [front EXCEPT !.pc = "connect"]
    <3>1. v # "none" /\ v \in {"none", "json", "human", "progress"}
      BY <1>7, <2>2 DEF PickRenderer, RendererFor
    <3>2. front' = [f EXCEPT !.renderer = v]
      BY <1>7, <2>2 DEF PickRenderer
    <3>3. f \in Fronts /\ f.pc = "connect" /\ f.bars = front.bars /\ f.backend = front.backend
      BY SetsPc DEF FrontInv, FrontShape, Places
    <3>4. v' = v
      BY <2>0 DEF RendererFor, UseLogs
    <3> HIDE DEF f, v
    <3>5. front' \in Fronts /\ front'.pc = "connect" /\ front'.bars = front.bars
          /\ front'.backend = front.backend /\ front'.renderer = v
      BY <3>1, <3>2, <3>3, SetsRenderer
    <3>6. v = RendererFor(line.format, UseLogs) /\ v' = RendererFor(line.format, UseLogs)'
      BY DEF v
    <3> QED BY <1>0, <2>0, <3>1, <3>4, <3>5, <3>6 DEF FrontInv, FrontShape, Past, At_
  <2> QED BY <2>1, <2>2
<1>8. UNCHANGED <<line, world>> => UNCHANGED RendererFor(line.format, UseLogs)
  BY DEF RendererFor, UseLogs
<1>9. CASE Connect
  <2>0. UNCHANGED <<line, world>> /\ At_("connect") /\ touched' = (front.backend = "docker")
    BY <1>9 DEF Connect
  <2>1. /\ BackendName = front.backend /\ world.renders /\ line.command = "run"
        /\ RendererFor(line.format, UseLogs) # "none"
    BY <2>0 DEF FrontInv, Past, At_
  <2>2. line.format \in {"human", "json"}
    BY <2>1 DEF RendererFor, UseLogs
  <2>3. CASE Refuses
    BY <1>0, <1>3, <2>0, <2>1, <2>2, <2>3 DEF FrontInv, FrontShape, Past
  <2>4. CASE ~Refuses
    <3>1. Goes("flags") /\ (front.backend = "docker" => world.daemon)
      BY <1>9, <2>4 DEF Connect
    <3> QED BY <1>0, <1>4, <1>8, <2>0, <2>1, <2>2, <3>1 DEF FrontInv, FrontShape, Past, At_, Places
  <2> QED BY <2>3, <2>4
<1>10. CASE Flags
  <2>0. UNCHANGED <<line, world, touched>> /\ At_("flags")
    BY <1>10 DEF Flags
  <2>1. CASE Refuses
    BY <1>2, <1>3, <2>0, <2>1
  <2>2. CASE ~Refuses
    <3>1. Goes("start") /\ (line.noWatch => front.backend = "cloud")
      BY <1>10, <2>2 DEF Flags, Capable
    <3> QED BY <1>0, <1>4, <1>8, <2>0, <3>1 DEF FrontInv, FrontShape, Past, At_, Places
  <2> QED BY <2>1, <2>2
<1>11. CASE Watch_
  <2>0. UNCHANGED <<line, world, touched>> /\ At_("watch")
    BY <1>11 DEF Watch_
  <2>1. CASE Refuses
    BY <1>2, <1>3, <2>0, <2>1
  <2>2. CASE ~Refuses
    <3> DEFINE v == RendererFor("human", ~world.stdout)
               f == [front EXCEPT !.pc = "start"]
               g == [f EXCEPT !.backend = "cloud"]
    <3>1. v \in {"none", "json", "human", "progress"}
      BY DEF RendererFor
    <3>2. front' = [g EXCEPT !.renderer = v]
      BY <1>11, <2>2 DEF Watch_
    <3>3. f \in Fronts /\ f.pc = "start"
      BY SetsPc DEF FrontInv, FrontShape, Places
    <3> HIDE DEF f, v
    <3>4. g \in Fronts /\ g.pc = "start"
      BY <3>3, SetsBackend
    <3> HIDE DEF g
    <3>5. front' \in Fronts /\ front'.pc = "start"
      BY <3>1, <3>2, <3>4, SetsRenderer
    <3> QED BY <1>0, <2>0, <3>5 DEF FrontInv, FrontShape, Past, At_
  <2> QED BY <2>1, <2>2
<1>12. CASE UNCHANGED frontVars
  BY <1>0, <1>8, <1>12 DEF frontVars, FrontInv, FrontShape, Past
<1> QED BY <1>1, <1>5, <1>6, <1>7, <1>9, <1>10, <1>11, <1>12 DEF FrontNext
\* Whatever the flags, the terminal, the configuration and Docker are: Docker is
\* asked only for a run that only its flags and Docker can still refuse, what
\* starts is on the backend asked for, and the bars have the layer that draws
\* them (run/mod.rs:97, 103).
THEOREM FrontDecides == FrontSpec => []FrontIsSound
<1>1. FrontInit => FrontInv
  BY DEF FrontInit, Begun, FrontInv, FrontShape, Past, Fronts, Places
<1>2. FrontInv => FrontIsSound
  <2>1. FrontInv => FailsFast /\ StartsAsAsked
    BY DEF FrontInv, FrontShape, Past, Line, World, Command, FailsFast, StartsAsAsked, At_, BackendName
  <2>2. FrontInv => BarsAreDrawn
    BY DEF FrontInv, FrontShape, Past, Line, World, Command, BarsAreDrawn, At_, Bars, RendererFor, UseLogs
  <2> QED BY <2>1, <2>2 DEF FrontIsSound
<1> QED BY <1>1, <1>2, FrontKept, PTL DEF FrontSpec

-----------------------------------------------------------------------------
(* hm init. *)

ScaffoldSpec == ScaffoldInit /\ [][ScaffoldNext]_scaffold

Things == [do : {"template", "link", "skill", "finish", "ignore"}, on : Names \cup ToSet(Ours)]
FileRec == [by : {"nobody", "hm", "user", "torn"}, of : Nat]
AnyLine == ToSet(Ours) \cup Theirs \cup {""}

ScaffoldShape ==
  /\ files \in [Names -> FileRec]
  /\ ignore \in [there : BOOLEAN, lines : Seq(AnyLine), ended : BOOLEAN]
  /\ init \in [force : BOOLEAN, todo : Seq(Things)]
  /\ version \in Nat /\ runs \in 0..MaxRuns /\ touches \in 0..MaxTouches

\* What is left to do: a template comes first, and before its entries; what is
\* left of a file is to fill what was truncated.
TodoOK ==
  /\ \A i \in 1..Len(init.todo) :
       LET x == init.todo[i] IN
       /\ x.do = "ignore" => x.on \in ToSet(Ours)
       /\ x.do = "template" => x.on = "pipeline.py"
       /\ x.do = "link" => x.on = "config.toml"
       /\ x.do = "skill" => x.on \in ToSet(Skills)
       /\ x.do = "finish" => x.on \in Names
       /\ x.do \in {"template", "finish"} => i = 1
  /\ Doing("template") =>
       /\ Len(init.todo) > Len(Ours)
       /\ \A k \in 1..Len(Ours) : init.todo[k + 1] = Put("ignore", Ours[k])
  /\ Doing("finish") => files[Item].by = "torn"

Pending(e) == \E i \in 1..Len(init.todo) : init.todo[i] = Put("ignore", e)

\* Beside hm's template an entry is there, or the same run will add it.
IgnoreOK ==
  ~cut /\ files["pipeline.py"].by \in {"hm", "torn"} =>
    \A e \in ToSet(Ours) : Listed(e) \/ (Pending(e) /\ ~Doing("template"))

ScaffoldInv == ScaffoldShape /\ ScaffoldTypeOK /\ TodoOK /\ IgnoreOK /\ EntriesOnce

-----------------------------------------------------------------------------
LEMMA Lengths ==
  ASSUME NEW S, NEW q \in Seq(S)
  PROVE  Len(q) \in Nat /\ ToSet(q) = {q[i] : i \in 1..Len(q)} /\ DOMAIN q = 1..Len(q)
BY DEF ToSet

LEMMA Entries ==
  /\ Len(Ours) \in Nat /\ DOMAIN Ours = 1..Len(Ours)
  /\ ToSet(Ours) = {Ours[k] : k \in 1..Len(Ours)}
<1> DEFINE S == ToSet(Ours)
<1>1. Ours \in Seq(S)
  BY EntriesAssumption
<1> HIDE DEF S
<1> QED BY <1>1, Lengths

\* The run goes on to what comes n items later.
LEMMA Proceeds ==
  ASSUME ScaffoldShape, TodoOK, NEW n \in 1..Len(init.todo), Proceed(n)
  PROVE  /\ init' \in [force : BOOLEAN, todo : Seq(Things)]
         /\ Len(init'.todo) = Len(init.todo) - n
         /\ \A i \in 1..Len(init'.todo) : i + n \in 1..Len(init.todo) /\ init'.todo[i] = init.todo[i + n]
         /\ ~Doing("template")' /\ ~Doing("finish")'
<1> DEFINE todo == init.todo
<1>1. todo \in Seq(Things) /\ init.force \in BOOLEAN
  BY DEF ScaffoldShape
<1>2. Len(todo) \in Nat /\ n \in Nat
  BY <1>1
<1>3. /\ init' \in [force : BOOLEAN, todo : Seq(Things)]
      /\ Len(init'.todo) = Len(todo) - n
      /\ \A i \in 1..Len(init'.todo) : i + n \in 1..Len(todo) /\ init'.todo[i] = todo[i + n]
  <2>1. CASE n = Len(todo)
    BY <1>1, <1>2, <2>1 DEF Proceed, NoRun
  <2>2. CASE n # Len(todo)
    <3>1. init' = [init EXCEPT !.todo = SubSeq(todo, n + 1, Len(todo))]
      BY <2>2 DEF Proceed
    <3>2. init'.todo = SubSeq(todo, n + 1, Len(todo)) /\ init'.force = init.force
      BY <3>1 DEF ScaffoldShape
    <3>3. /\ SubSeq(todo, n + 1, Len(todo)) \in Seq(Things)
          /\ Len(SubSeq(todo, n + 1, Len(todo))) = Len(todo) - n
          /\ \A i \in 1..(Len(todo) - n) : SubSeq(todo, n + 1, Len(todo))[i] = todo[i + n]
      BY <1>1, <1>2, <2>2
    <3>4. \A i \in 1..(Len(todo) - n) : i + n \in 1..Len(todo)
      BY <1>2
    <3>5. init' \in [force : BOOLEAN, todo : Seq(Things)]
      BY <3>1, <3>3 DEF ScaffoldShape
    <3> QED BY <3>2, <3>3, <3>4, <3>5
  <2> QED BY <2>1, <2>2
<1>4. \A i \in 1..Len(init'.todo) : init'.todo[i].do \notin {"template", "finish"}
  <2> TAKE i \in 1..Len(init'.todo)
  <2>1. i + n \in 1..Len(todo) /\ i + n # 1 /\ init'.todo[i] = todo[i + n]
    BY <1>2, <1>3
  <2> QED BY <2>1 DEF TodoOK
<1>5. init'.todo # <<>> => 1 \in 1..Len(init'.todo)
  <2>1. init'.todo \in Seq(Things)
    BY <1>3
  <2> QED BY <2>1
<1> QED BY <1>3, <1>4, <1>5 DEF Doing, Resting

\* It has truncated the file it is about to fill.
LEMMA Truncates ==
  ASSUME ScaffoldShape, TodoOK, ~Resting, NEW n \in Names, Truncate(n)
  PROVE  /\ files' \in [Names -> FileRec]
         /\ files'[n].by = "torn" /\ \A m \in Names : m # n => files'[m] = files[m]
         /\ init' \in [force : BOOLEAN, todo : Seq(Things)]
         /\ Len(init'.todo) = Len(init.todo) /\ 1 \in 1..Len(init.todo)
         /\ init'.todo[1] = Put("finish", n) /\ init'.todo # <<>>
         /\ \A i \in 1..Len(init.todo) : i # 1 => init'.todo[i] = init.todo[i]
<1> DEFINE todo == init.todo
           new == <<Put("finish", n)>> \o Tail(todo)
<1>1. todo \in Seq(Things) /\ init.force \in BOOLEAN /\ todo # <<>>
  BY DEF ScaffoldShape, Resting
<1>2. Put("finish", n) \in Things
  BY DEF Put, Things
<1>3. init' = [init EXCEPT !.todo = new]
  BY DEF Truncate
<1>4. Len(todo) \in Nat \ {0} /\ Tail(todo) \in Seq(Things) /\ Len(Tail(todo)) = Len(todo) - 1
      /\ \A i \in 1..(Len(todo) - 1) : Tail(todo)[i] = todo[i + 1]
  BY <1>1
<1>5. new \in Seq(Things) /\ Len(new) = Len(todo) /\ new[1] = Put("finish", n)
  BY <1>2, <1>4
<1>6. \A i \in 1..Len(todo) : i # 1 => new[i] = todo[i]
  <2> TAKE i \in 1..Len(todo)
  <2> HAVE i # 1
  <2>1. i - 1 \in 1..(Len(todo) - 1)
    BY <1>4
  <2>2. new[i] = Tail(todo)[i - 1]
    BY <1>4, <2>1
  <2>3. Tail(todo)[i - 1] = todo[(i - 1) + 1] /\ (i - 1) + 1 = i
    BY <1>4, <2>1
  <2> QED BY <2>2, <2>3
<1>7. init'.todo = new /\ init' \in [force : BOOLEAN, todo : Seq(Things)]
  BY <1>3, <1>5 DEF ScaffoldShape
<1>8. /\ files' \in [Names -> FileRec]
      /\ files'[n].by = "torn" /\ \A m \in Names : m # n => files'[m] = files[m]
  BY DEF Truncate, ScaffoldShape, FileRec
<1>9. new # <<>>
  BY <1>4, <1>5
<1> QED BY <1>4, <1>5, <1>6, <1>7, <1>8, <1>9

LEMMA AfterProceed ==
  ASSUME ScaffoldShape, TodoOK, NEW n \in 1..Len(init.todo), Proceed(n)
  PROVE  TodoOK'
<1>1. /\ \A i \in 1..Len(init'.todo) : i + n \in 1..Len(init.todo) /\ init'.todo[i] = init.todo[i + n]
      /\ ~Doing("template")' /\ ~Doing("finish")'
  BY Proceeds
<1>2. \A i \in 1..Len(init'.todo) : i + n # 1
  OBVIOUS
<1> QED BY <1>1, <1>2 DEF TodoOK

LEMMA AfterTruncate ==
  ASSUME ScaffoldShape, TodoOK, ~Resting, NEW n \in Names, Truncate(n)
  PROVE  TodoOK' /\ Doing("finish")' /\ Item' = n
<1>1. /\ files'[n].by = "torn"
      /\ Len(init'.todo) = Len(init.todo) /\ 1 \in 1..Len(init.todo)
      /\ init'.todo[1] = Put("finish", n) /\ init'.todo # <<>>
      /\ \A i \in 1..Len(init.todo) : i # 1 => init'.todo[i] = init.todo[i]
  BY Truncates
<1>2. init'.todo[1].do = "finish" /\ init'.todo[1].on = n
  BY <1>1 DEF Put
<1>3. Doing("finish")' /\ Item' = n /\ ~Doing("template")'
  BY <1>1, <1>2 DEF Doing, Item, Resting
<1>4. \A i \in 1..Len(init'.todo) :
        LET x == init'.todo[i] IN
        /\ x.do = "ignore" => x.on \in ToSet(Ours)
        /\ x.do = "template" => x.on = "pipeline.py"
        /\ x.do = "link" => x.on = "config.toml"
        /\ x.do = "skill" => x.on \in ToSet(Skills)
        /\ x.do = "finish" => x.on \in Names
        /\ x.do \in {"template", "finish"} => i = 1
  <2> TAKE i \in 1..Len(init'.todo)
  <2>1. CASE i = 1
    BY <1>2, <2>1
  <2>2. CASE i # 1
    BY <1>1, <2>2 DEF TodoOK
  <2> QED BY <2>1, <2>2
<1>5. files'[Item'].by = "torn"
  BY <1>1, <1>3
<1> QED BY <1>3, <1>4, <1>5 DEF TodoOK

\* Entries still to add stay so.
LEMMA PendingStays ==
  ASSUME ScaffoldShape, TodoOK, ~Resting, NEW e,
         Proceed(1) \/ (\E n \in Names : Truncate(n)), Pending(e)
  PROVE  Pending(e)' \/ init.todo[1] = Put("ignore", e)
<1>0. Len(init.todo) \in Nat /\ 1 \in 1..Len(init.todo)
  BY DEF ScaffoldShape, Resting
<1>1. PICK i \in 1..Len(init.todo) : init.todo[i] = Put("ignore", e)
  BY DEF Pending
<1>2. CASE i # 1 /\ Proceed(1)
  <2>1. /\ Len(init'.todo) = Len(init.todo) - 1
        /\ \A k \in 1..Len(init'.todo) : init'.todo[k] = init.todo[k + 1]
    BY <1>0, <1>2, Proceeds
  <2>2. i - 1 \in 1..Len(init'.todo) /\ (i - 1) + 1 = i
    BY <1>0, <1>2, <2>1
  <2>3. init'.todo[i - 1] = Put("ignore", e)
    BY <1>1, <2>1, <2>2
  <2>4. \E k \in 1..Len(init'.todo) : init'.todo[k] = Put("ignore", e)
    BY <2>2, <2>3
  <2> QED BY <2>4 DEF Pending, Put
<1>3. ASSUME i # 1, NEW n \in Names, Truncate(n)
      PROVE  Pending(e)'
  <2>1. /\ Len(init'.todo) = Len(init.todo)
        /\ \A k \in 1..Len(init.todo) : k # 1 => init'.todo[k] = init.todo[k]
    BY <1>3, Truncates
  <2> QED BY <1>1, <1>3, <2>1 DEF Pending, Put
<1> QED BY <1>1, <1>2, <1>3

\* What the head of the list says.
LEMMA HeadIs ==
  ASSUME ScaffoldShape, TodoOK, ~Resting
  PROVE  /\ 1 \in 1..Len(init.todo)
         /\ Doing("ignore") => Item \in ToSet(Ours)
         /\ Doing("template") => Item = "pipeline.py"
         /\ Doing("link") => Item = "config.toml"
         /\ Doing("skill") => Item \in ToSet(Skills)
         /\ Doing("finish") => Item \in Names
<1>0. Len(init.todo) \in Nat /\ 1 \in 1..Len(init.todo)
  BY DEF ScaffoldShape, Resting
<1> QED BY <1>0 DEF TodoOK, Doing, Item

\* A run that writes a file: what comes of the files it did not touch.
LEMMA FileTruncated ==
  ASSUME ScaffoldInv, ~Resting, NEW n \in Names, Truncate(n), ~Doing("finish"), ~Doing("ignore"),
         UNCHANGED <<other, ignore, version, runs, touches, cut>>,
         n = "pipeline.py" => \A e \in ToSet(Ours) : Pending(e)
  PROVE  ScaffoldInv'
<1> USE DEF ScaffoldInv
<1>1. /\ files' \in [Names -> FileRec]
      /\ files'[n].by = "torn" /\ \A m \in Names : m # n => files'[m] = files[m]
      /\ init' \in [force : BOOLEAN, todo : Seq(Things)]
  BY Truncates
<1>2. TodoOK' /\ Doing("finish")' /\ Item' = n
  BY AfterTruncate
<1>3. ScaffoldShape'
  BY <1>1 DEF ScaffoldShape
<1>4. ScaffoldTypeOK'
  BY <1>1, <1>2 DEF ScaffoldTypeOK, FileRec
<1>5. ASSUME NEW e \in ToSet(Ours), ~cut, files'["pipeline.py"].by \in {"hm", "torn"}
      PROVE  Listed(e)' \/ (Pending(e)' /\ ~Doing("template")')
  <2>1. Listed(e) \/ Pending(e)
    BY <1>1, <1>5 DEF IgnoreOK, Names
  <2>2. Listed(e) => Listed(e)'
    BY DEF Listed
  <2>3. Pending(e) => Pending(e)'
    <3>1. 1 \in 1..Len(init.todo) /\ init.todo[1].do # "ignore"
      BY HeadIs DEF Doing
    <3>2. init.todo[1] # Put("ignore", e)
      BY <3>1 DEF Put
    <3>3. ScaffoldShape /\ TodoOK
      OBVIOUS
    <3>4. \E m \in Names : Truncate(m)
      OBVIOUS
    <3> QED BY <3>2, <3>3, <3>4, PendingStays
  <2>4. ~Doing("template")'
    BY <1>2 DEF Doing
  <2> QED BY <2>1, <2>2, <2>3, <2>4
<1>6. IgnoreOK'
  BY <1>5 DEF IgnoreOK
<1>7. EntriesOnce'
  BY DEF EntriesOnce
<1> QED BY <1>2, <1>3, <1>4, <1>6, <1>7

\* A run that takes what is first off its list, and writes no file.
LEMMA ItemDropped ==
  ASSUME ScaffoldInv, ~Resting, NEW n \in 1..Len(init.todo), Proceed(n), ~Doing("finish"),
         UNCHANGED <<files, other, version, runs, touches, cut>>, ScaffoldShape', EntriesOnce',
         ~ignore'.there => ignore'.lines = <<>>,
         ~cut /\ files["pipeline.py"].by \in {"hm", "torn"} =>
           \A e \in ToSet(Ours) : Listed(e)' \/ Pending(e)'
  PROVE  ScaffoldInv'
<1> USE DEF ScaffoldInv
<1>1. TodoOK'
  BY AfterProceed
<1>2. ~Doing("template")'
  BY Proceeds
<1>3. ScaffoldTypeOK'
  BY DEF ScaffoldTypeOK
<1>4. IgnoreOK'
  BY <1>2 DEF IgnoreOK
<1> QED BY <1>1, <1>3, <1>4

LEMMA TemplateWritten == ScaffoldInv /\ WriteTemplate => ScaffoldInv'
<1> SUFFICES ASSUME ScaffoldInv, WriteTemplate PROVE ScaffoldInv'
  OBVIOUS
<1>0. /\ ~Resting /\ Doing("template") /\ Item = "pipeline.py" /\ "pipeline.py" \in Names
      /\ ~Doing("finish") /\ ~Doing("ignore")
  BY HeadIs DEF WriteTemplate, Doing, ScaffoldInv, Names
<1>1. /\ Len(Ours) \in Nat /\ Len(init.todo) \in Nat /\ 1 + Len(Ours) \in 1..Len(init.todo)
      /\ \A k \in 1..Len(Ours) : init.todo[k + 1] = Put("ignore", Ours[k])
  <2>1. Len(Ours) \in Nat /\ Len(init.todo) \in Nat
    BY Entries, Lengths DEF ScaffoldInv, ScaffoldShape
  <2>2. Len(init.todo) > Len(Ours) /\ \A k \in 1..Len(Ours) : init.todo[k + 1] = Put("ignore", Ours[k])
    BY <1>0 DEF ScaffoldInv, TodoOK
  <2> QED BY <2>1, <2>2
<1>2. CASE PipelineNow /\ ~init.force
  <2>1. Proceed(1 + Len(Ours)) /\ UNCHANGED <<files, other, ignore, version, runs, touches, cut>>
    BY <1>2 DEF WriteTemplate
  <2>2. init' \in [force : BOOLEAN, todo : Seq(Things)]
    BY <1>1, <2>1, Proceeds DEF ScaffoldInv
  <2>3. ScaffoldShape' /\ EntriesOnce' /\ (~ignore'.there => ignore'.lines = <<>>)
    BY <2>1, <2>2 DEF ScaffoldInv, ScaffoldShape, EntriesOnce, ScaffoldTypeOK
  <2>4. ~cut /\ files["pipeline.py"].by \in {"hm", "torn"} => \A e \in ToSet(Ours) : Listed(e)'
    BY <1>0, <2>1 DEF ScaffoldInv, IgnoreOK, Listed
  <2> QED BY <1>0, <1>1, <2>1, <2>3, <2>4, ItemDropped
<1>3. CASE ~(PipelineNow /\ ~init.force)
  <2>1. Truncate("pipeline.py") /\ UNCHANGED <<other, ignore, version, runs, touches, cut>>
    BY <1>3 DEF WriteTemplate
  <2>2. \A e \in ToSet(Ours) : Pending(e)
    <3> TAKE e \in ToSet(Ours)
    <3>1. PICK k \in 1..Len(Ours) : e = Ours[k]
      BY Entries
    <3>2. k + 1 \in 1..Len(init.todo)
      BY <1>1
    <3> QED BY <1>1, <3>1, <3>2 DEF Pending
  <2> QED BY <1>0, <2>1, <2>2, FileTruncated
<1> QED BY <1>2, <1>3

LEMMA SkillWritten == ScaffoldInv /\ WriteSkill => ScaffoldInv'
<1> SUFFICES ASSUME ScaffoldInv, WriteSkill PROVE ScaffoldInv'
  OBVIOUS
<1>0. /\ ~Resting /\ Item \in ToSet(Skills) /\ Item \in Names /\ Item # "pipeline.py"
      /\ 1 \in 1..Len(init.todo) /\ init.todo[1].do = "skill"
      /\ ~Doing("finish") /\ ~Doing("ignore")
  BY HeadIs, SkillsAssumption DEF WriteSkill, Doing, ScaffoldInv, Names
<1>1. CASE Keep(Item)
  <2>1. Proceed(1) /\ UNCHANGED <<files, other, ignore, version, runs, touches, cut>>
    BY <1>1 DEF WriteSkill
  <2>2. init' \in [force : BOOLEAN, todo : Seq(Things)]
    BY <1>0, <2>1, Proceeds DEF ScaffoldInv
  <2>3. ScaffoldShape' /\ EntriesOnce' /\ (~ignore'.there => ignore'.lines = <<>>)
    BY <2>1, <2>2 DEF ScaffoldInv, ScaffoldShape, EntriesOnce, ScaffoldTypeOK
  <2>4. ASSUME ~cut, files["pipeline.py"].by \in {"hm", "torn"}, NEW e \in ToSet(Ours)
        PROVE  Listed(e)' \/ Pending(e)'
    <3>1. Listed(e) \/ Pending(e)
      BY <2>4 DEF ScaffoldInv, IgnoreOK
    <3>2. Listed(e) => Listed(e)'
      BY <2>1 DEF Listed
    <3>3. init.todo[1] # Put("ignore", e)
      BY <1>0 DEF Put
    <3>4. ScaffoldShape /\ TodoOK
      BY DEF ScaffoldInv
    <3> QED BY <1>0, <2>1, <3>1, <3>2, <3>3, <3>4, PendingStays
  <2> QED BY <1>0, <2>1, <2>3, <2>4, ItemDropped
<1>2. CASE ~Keep(Item)
  <2>1. Truncate(Item) /\ UNCHANGED <<other, ignore, version, runs, touches, cut>>
    BY <1>2 DEF WriteSkill
  <2> QED BY <1>0, <2>1, FileTruncated
<1> QED BY <1>1, <1>2

LEMMA LinkWritten == ScaffoldInv /\ WriteLink => ScaffoldInv'
<1> SUFFICES ASSUME ScaffoldInv, WriteLink PROVE ScaffoldInv'
  OBVIOUS
<1>1. ~Resting /\ ~Doing("finish") /\ ~Doing("ignore") /\ "config.toml" \in Names
  BY DEF WriteLink, Doing, Names
<1>2. Truncate("config.toml") /\ UNCHANGED <<other, ignore, version, runs, touches, cut>>
  BY DEF WriteLink
<1> QED BY <1>1, <1>2, FileTruncated

LEMMA ContentsWritten == ScaffoldInv /\ WriteContents => ScaffoldInv'
<1> SUFFICES ASSUME ScaffoldInv, WriteContents PROVE ScaffoldInv'
  OBVIOUS
<1>0. /\ ~Resting /\ Doing("finish") /\ Item \in Names /\ 1 \in 1..Len(init.todo)
      /\ init.todo[1].do = "finish" /\ files[Item].by = "torn" /\ ~Doing("template")
  BY HeadIs DEF WriteContents, Doing, ScaffoldInv, TodoOK
<1>1. /\ files' = [files EXCEPT ![Item] = Bundled] /\ Proceed(1)
      /\ UNCHANGED <<other, ignore, version, runs, touches, cut>>
  BY DEF WriteContents
<1>2. /\ files' \in [Names -> FileRec] /\ files'[Item].by = "hm"
      /\ \A m \in Names : m # Item => files'[m] = files[m]
  BY <1>0, <1>1 DEF ScaffoldInv, ScaffoldShape, FileRec, Bundled
<1>3. TodoOK' /\ ~Doing("template")' /\ init' \in [force : BOOLEAN, todo : Seq(Things)]
  BY <1>0, <1>1, AfterProceed, Proceeds DEF ScaffoldInv
<1>4. ScaffoldShape'
  BY <1>1, <1>2, <1>3 DEF ScaffoldInv, ScaffoldShape
<1>5. ScaffoldTypeOK'
  BY <1>0, <1>1, <1>2 DEF ScaffoldInv, ScaffoldTypeOK, FileRec
<1>6. ASSUME ~cut, files'["pipeline.py"].by \in {"hm", "torn"}, NEW e \in ToSet(Ours)
      PROVE  Listed(e)' \/ Pending(e)'
  <2>1. files["pipeline.py"].by \in {"hm", "torn"}
    BY <1>0, <1>2, <1>6 DEF Names
  <2>2. Listed(e) \/ Pending(e)
    BY <1>6, <2>1 DEF ScaffoldInv, IgnoreOK
  <2>3. Listed(e) => Listed(e)'
    BY <1>1 DEF Listed
  <2>4. init.todo[1] # Put("ignore", e)
    BY <1>0 DEF Put
  <2>5. ScaffoldShape /\ TodoOK
    BY DEF ScaffoldInv
  <2> QED BY <1>0, <1>1, <2>2, <2>3, <2>4, <2>5, PendingStays
<1>7. IgnoreOK'
  BY <1>1, <1>3, <1>6 DEF IgnoreOK
<1>8. EntriesOnce'
  BY <1>1 DEF ScaffoldInv, EntriesOnce
<1> QED BY <1>3, <1>4, <1>5, <1>7, <1>8 DEF ScaffoldInv

LEMMA Appends ==
  ASSUME NEW S, NEW q \in Seq(S), NEW x \in S
  PROVE  /\ Len(q) \in Nat /\ DOMAIN q = 1..Len(q)
         /\ Append(q, x) \in Seq(S) /\ DOMAIN Append(q, x) = 1..(Len(q) + 1)
         /\ \A i \in 1..Len(q) : Append(q, x)[i] = q[i]
         /\ Append(q, x)[Len(q) + 1] = x
OBVIOUS

LEMMA Pairs ==
  ASSUME NEW S, NEW a \in S, NEW b \in S
  PROVE  /\ <<a, b>> \in Seq(S) /\ DOMAIN <<a, b>> = 1..2 /\ <<a, b>> # <<>>
         /\ <<a, b>>[1] = a /\ <<a, b>>[2] = b
OBVIOUS

\* An entry that is not in the file is added behind its lines.
LEMMA LineAppended ==
  ASSUME ScaffoldInv, NEW x \in AnyLine, x \in ToSet(Ours) => ~Listed(x),
         ignore'.lines = Append(ignore.lines, x)
  PROVE  /\ ignore'.lines \in Seq(AnyLine) /\ ignore'.lines # <<>>
         /\ EntriesOnce' /\ (\A e : Listed(e) => Listed(e)')
         /\ \E i \in DOMAIN ignore'.lines : ignore'.lines[i] = x
         /\ \A i \in DOMAIN ignore.lines : i \in DOMAIN ignore'.lines /\ ignore'.lines[i] = ignore.lines[i]
         /\ \A i \in DOMAIN ignore'.lines : ignore'.lines[i] # x => i \in DOMAIN ignore.lines
<1>0. ignore.lines \in Seq(AnyLine)
  BY DEF ScaffoldInv, ScaffoldShape
<1>1. PICK n \in Nat :
        /\ DOMAIN ignore.lines = 1..n
        /\ ignore'.lines \in Seq(AnyLine) /\ DOMAIN ignore'.lines = 1..(n + 1)
        /\ \A i \in 1..n : ignore'.lines[i] = ignore.lines[i]
        /\ ignore'.lines[n + 1] = x
  BY <1>0, Appends
<1>2. EntriesOnce'
  <2>1. \A i, j \in 1..n : ignore.lines[i] = ignore.lines[j] /\ ignore.lines[i] \in ToSet(Ours) => i = j
    BY <1>1 DEF ScaffoldInv, EntriesOnce
  <2>2. x \in ToSet(Ours) => \A i \in 1..n : ignore.lines[i] # x
    BY <1>1 DEF Listed
  <2> QED BY <1>1, <2>1, <2>2 DEF EntriesOnce
<1>3. n + 1 \in 1..(n + 1)
  OBVIOUS
<1>4. \A e : Listed(e) => Listed(e)'
  BY <1>1 DEF Listed
<1>5. ignore'.lines # <<>>
  BY <1>1, <1>3
<1> QED BY <1>1, <1>2, <1>3, <1>4, <1>5

LEMMA EntryAppended ==
  ASSUME ScaffoldInv, NEW x \in ToSet(Ours), ~Listed(x), ignore'.lines = Appended(x)
  PROVE  /\ ignore'.lines \in Seq(AnyLine) /\ ignore'.lines # <<>>
         /\ EntriesOnce' /\ (\A e : Listed(e) => Listed(e)')
         /\ \E i \in DOMAIN ignore'.lines : ignore'.lines[i] = x
         /\ \A i \in DOMAIN ignore.lines : i \in DOMAIN ignore'.lines /\ ignore'.lines[i] = ignore.lines[i]
         /\ \A i \in DOMAIN ignore'.lines : ignore'.lines[i] \notin {"", x} => i \in DOMAIN ignore.lines
<1>0. x \in AnyLine /\ x # "" /\ "" \in AnyLine /\ "" \notin ToSet(Ours)
  BY EntriesAssumption DEF AnyLine
<1>1. CASE ignore.lines = <<>> /\ ignore.there
  <2>1. ignore'.lines = <<"", x>>
    BY <1>1 DEF Appended
  <2>2. /\ ignore'.lines \in Seq(AnyLine) /\ DOMAIN ignore'.lines = 1..2 /\ ignore'.lines # <<>>
        /\ ignore'.lines[1] = "" /\ ignore'.lines[2] = x
    <3> DEFINE S == AnyLine
    <3>1. "" \in S /\ x \in S
      BY <1>0
    <3> HIDE DEF S
    <3>2. /\ <<"", x>> \in Seq(S) /\ DOMAIN <<"", x>> = 1..2 /\ <<"", x>> # <<>>
          /\ <<"", x>>[1] = "" /\ <<"", x>>[2] = x
      BY <3>1, Pairs
    <3> QED BY <2>1, <3>2 DEF S
  <2>3. DOMAIN ignore.lines = {}
    BY <1>1
  <2>4. EntriesOnce'
    <3>0. \A i \in 1..2 : i = 1 \/ i = 2
      OBVIOUS
    <3>1. \A i \in DOMAIN ignore'.lines : i = 1 \/ i = 2
      BY <2>2, <3>0
    <3>2. ignore'.lines[1] \notin ToSet(Ours) /\ ignore'.lines[1] # ignore'.lines[2]
      BY <1>0, <2>2
    <3> QED BY <3>1, <3>2 DEF EntriesOnce
  <2>5. \A e : ~Listed(e)
    BY <2>3 DEF Listed
  <2>6. 2 \in 1..2 /\ \A i \in 1..2 : i = 1 \/ i = 2
    OBVIOUS
  <2> QED BY <2>2, <2>3, <2>4, <2>5, <2>6
<1>2. CASE ~(ignore.lines = <<>> /\ ignore.there)
  <2>1. ignore'.lines = Append(ignore.lines, x)
    BY <1>2 DEF Appended
  <2> QED BY <1>0, <2>1, LineAppended
<1> QED BY <1>1, <1>2

LEMMA EntryAdded == ScaffoldInv /\ EnsureIgnored => ScaffoldInv'
<1> SUFFICES ASSUME ScaffoldInv, EnsureIgnored PROVE ScaffoldInv'
  OBVIOUS
<1>0. /\ ~Resting /\ Item \in ToSet(Ours) /\ 1 \in 1..Len(init.todo)
      /\ init.todo[1].do = "ignore" /\ ~Doing("finish") /\ ~Doing("template")
  BY HeadIs DEF EnsureIgnored, Doing, ScaffoldInv
<1>1. Proceed(1) /\ UNCHANGED <<files, other, version, runs, touches, cut>>
  BY DEF EnsureIgnored
<1>2. init' \in [force : BOOLEAN, todo : Seq(Things)]
  BY <1>0, <1>1, Proceeds DEF ScaffoldInv
<1>3. PICK x \in ToSet(Ours) : x = Item
  BY <1>0
<1>4. /\ ignore' \in [there : BOOLEAN, lines : Seq(AnyLine), ended : BOOLEAN]
      /\ ~ignore'.there => ignore'.lines = <<>>
      /\ EntriesOnce'
      /\ \A e : Listed(e) => Listed(e)'
      /\ Listed(x)'
  <2>0. ignore \in [there : BOOLEAN, lines : Seq(AnyLine), ended : BOOLEAN]
    BY DEF ScaffoldInv, ScaffoldShape
  <2>1. CASE Listed(x)
    <3>1. ignore' = ignore
      BY <1>3, <2>1 DEF EnsureIgnored
    <3> QED BY <2>0, <2>1, <3>1 DEF ScaffoldInv, ScaffoldTypeOK, EntriesOnce, Listed
  <2>2. CASE ~Listed(x)
    <3>1. ignore' = [there |-> TRUE, lines |-> Appended(x), ended |-> TRUE]
      BY <1>3, <2>2 DEF EnsureIgnored
    <3>2. ignore'.lines = Appended(x) /\ ignore'.there
      BY <3>1
    <3>3. /\ ignore'.lines \in Seq(AnyLine)
          /\ EntriesOnce' /\ (\A e : Listed(e) => Listed(e)')
          /\ \E i \in DOMAIN ignore'.lines : ignore'.lines[i] = x
      BY <2>2, <3>2, EntryAppended
    <3>4. Listed(x)'
      BY <3>3 DEF Listed
    <3> QED BY <3>1, <3>2, <3>3, <3>4
  <2> QED BY <2>1, <2>2
<1>5. ScaffoldShape'
  BY <1>1, <1>2, <1>4 DEF ScaffoldInv, ScaffoldShape
<1>6. ASSUME ~cut, files["pipeline.py"].by \in {"hm", "torn"}, NEW e \in ToSet(Ours)
      PROVE  Listed(e)' \/ Pending(e)'
  <2>1. Listed(e) \/ Pending(e)
    BY <1>6 DEF ScaffoldInv, IgnoreOK
  <2>2. init.todo[1] = Put("ignore", e) => e = x
    BY <1>3 DEF Put, Item
  <2>3. ScaffoldShape /\ TodoOK
    BY DEF ScaffoldInv
  <2>4. Pending(e) => Pending(e)' \/ init.todo[1] = Put("ignore", e)
    BY <1>0, <1>1, <2>3, PendingStays
  <2> QED BY <1>4, <2>1, <2>2, <2>4
<1> QED BY <1>0, <1>1, <1>4, <1>5, <1>6, ItemDropped

\* A run begins when the one before has ended: its list.
LEMMA Concats ==
  ASSUME NEW S, NEW q \in Seq(S), NEW r \in Seq(S)
  PROVE  /\ q \o r \in Seq(S) /\ Len(q) \in Nat /\ Len(r) \in Nat /\ Len(q \o r) = Len(q) + Len(r)
         /\ \A i \in 1..Len(q \o r) : (q \o r)[i] = IF i <= Len(q) THEN q[i] ELSE r[i - Len(q)]
OBVIOUS

LEMMA Sequences3 ==
  ASSUME NEW S, NEW a \in Seq(S), NEW b \in Seq(S), NEW c \in Seq(S)
  PROVE  /\ a \o b \o c \in Seq(S)
         /\ \A i \in 1..Len(a \o b \o c) :
              \/ i \in 1..Len(a) /\ (a \o b \o c)[i] = a[i]
              \/ i > Len(a) /\ (\E k \in 1..Len(b) : (a \o b \o c)[i] = b[k])
              \/ i > Len(a) /\ (\E k \in 1..Len(c) : (a \o b \o c)[i] = c[k])
         /\ \A i \in 1..Len(a) : i \in 1..Len(a \o b \o c) /\ (a \o b \o c)[i] = a[i]
         /\ Len(a) \in Nat /\ Len(a \o b \o c) \in Nat /\ Len(a \o b \o c) >= Len(a)
<1> DEFINE ab == a \o b
<1>1. /\ ab \in Seq(S) /\ Len(ab) = Len(a) + Len(b) /\ Len(a) \in Nat /\ Len(b) \in Nat /\ Len(c) \in Nat
      /\ \A i \in 1..Len(ab) : ab[i] = IF i <= Len(a) THEN a[i] ELSE b[i - Len(a)]
  OBVIOUS
<1>10. ab \in Seq(S)
  BY <1>1
<1> HIDE DEF ab
<1>2. /\ ab \o c \in Seq(S) /\ Len(ab \o c) = Len(ab) + Len(c)
      /\ \A i \in 1..Len(ab \o c) : (ab \o c)[i] = IF i <= Len(ab) THEN ab[i] ELSE c[i - Len(ab)]
  BY <1>10, Concats
<1>3. ASSUME NEW i \in 1..Len(ab \o c)
      PROVE  \/ i \in 1..Len(a) /\ (ab \o c)[i] = a[i]
             \/ i > Len(a) /\ (\E k \in 1..Len(b) : (ab \o c)[i] = b[k])
             \/ i > Len(a) /\ (\E k \in 1..Len(c) : (ab \o c)[i] = c[k])
  <2>1. CASE i <= Len(a)
    BY <1>1, <1>2, <2>1
  <2>2. CASE i > Len(a) /\ i <= Len(ab)
    <3>1. i - Len(a) \in 1..Len(b) /\ (ab \o c)[i] = b[i - Len(a)]
      BY <1>1, <1>2, <2>2
    <3> QED BY <2>2, <3>1
  <2>3. CASE i > Len(ab)
    <3>1. i - Len(ab) \in 1..Len(c) /\ (ab \o c)[i] = c[i - Len(ab)] /\ i > Len(a)
      BY <1>1, <1>2, <2>3
    <3> QED BY <3>1
  <2> QED BY <1>1, <1>2, <2>1, <2>2, <2>3
<1>4. \A i \in 1..Len(a) : i \in 1..Len(ab \o c) /\ (ab \o c)[i] = a[i]
  BY <1>1, <1>2
<1> QED BY <1>1, <1>2, <1>3, <1>4 DEF ab

LEMMA TemplateIs ==
  /\ Template \in Seq(Things) /\ Len(Template) = 1 + Len(Ours)
  /\ Template[1] = Put("template", "pipeline.py")
  /\ \A k \in 1..Len(Ours) : Template[k + 1] = Put("ignore", Ours[k])
<1> DEFINE tail == [i \in DOMAIN Ours |-> Put("ignore", Ours[i])]
           first == <<Put("template", "pipeline.py")>>
<1>1. \A k \in 1..Len(Ours) : Ours[k] \in ToSet(Ours)
  BY Entries
<1>2. Put("template", "pipeline.py") \in Things /\ \A k \in 1..Len(Ours) : Put("ignore", Ours[k]) \in Things
  BY <1>1 DEF Put, Things, Names
<1>3. tail \in Seq(Things) /\ Len(tail) = Len(Ours) /\ \A k \in 1..Len(Ours) : tail[k] = Put("ignore", Ours[k])
  BY <1>2, Entries
<1>4. first \in Seq(Things) /\ Len(first) = 1 /\ first[1] = Put("template", "pipeline.py")
  BY <1>2
<1>8. first \in Seq(Things) /\ tail \in Seq(Things)
  BY <1>3, <1>4
<1> HIDE DEF tail, first
<1>5. /\ first \o tail \in Seq(Things) /\ Len(first \o tail) = 1 + Len(tail)
      /\ (first \o tail)[1] = first[1]
      /\ \A i \in 1..(1 + Len(tail)) : i # 1 => (first \o tail)[i] = tail[i - 1]
  <2>1. /\ first \o tail \in Seq(Things) /\ Len(first \o tail) = 1 + Len(tail) /\ Len(tail) \in Nat
        /\ \A i \in 1..(1 + Len(tail)) :
             (first \o tail)[i] = IF i <= 1 THEN first[i] ELSE tail[i - 1]
    <3>1. /\ first \o tail \in Seq(Things) /\ Len(first \o tail) = Len(first) + Len(tail) /\ Len(tail) \in Nat
          /\ \A i \in 1..Len(first \o tail) :
               (first \o tail)[i] = IF i <= Len(first) THEN first[i] ELSE tail[i - Len(first)]
      BY <1>8, Concats
    <3> QED BY <1>4, <3>1
  <2> QED BY <2>1
<1>6. \A k \in 1..Len(Ours) : k + 1 \in 1..(1 + Len(tail)) /\ k + 1 # 1 /\ (k + 1) - 1 = k
  BY <1>3, Entries
<1>7. Template = first \o tail
  BY DEF Template, first, tail
<1> QED BY <1>3, <1>4, <1>5, <1>6, <1>7

LEMMA RunBegins ==
  ASSUME ScaffoldInv, NEW flag \in BOOLEAN, NEW force \in BOOLEAN, NEW tty \in BOOLEAN, NEW link \in BOOLEAN,
         NEW skills \in BOOLEAN, RunInit(flag, force, tty, link, skills)
  PROVE  ScaffoldInv'
<1> DEFINE skip == ~flag /\ HasPipeline /\ ~force
           a == IF skip THEN <<>> ELSE Template
           b == IF link THEN <<Put("link", "config.toml")>> ELSE <<>>
           c == IF skills THEN [i \in DOMAIN Skills |-> Put("skill", Skills[i])] ELSE <<>>
           todo == a \o b \o c
<1>0. /\ Resting /\ runs < MaxRuns /\ runs' = runs + 1
      /\ init' = [force |-> force, todo |-> todo]
      /\ UNCHANGED <<files, other, ignore, version, touches, cut>>
  BY DEF RunInit
<1>1. a \in Seq(Things) /\ (a = <<>> \/ a = Template)
  BY TemplateIs
<1>2. b \in Seq(Things) /\ \A k \in 1..Len(b) : b[k] = Put("link", "config.toml")
  <2>1. Put("link", "config.toml") \in Things
    BY DEF Put, Things, Names
  <2> QED BY <2>1
<1>3. c \in Seq(Things) /\ \A k \in 1..Len(c) : \E s \in ToSet(Skills) : c[k] = Put("skill", s)
  <2>0. Len(Skills) \in Nat /\ DOMAIN Skills = 1..Len(Skills) /\ ToSet(Skills) = {Skills[i] : i \in 1..Len(Skills)}
    <3> DEFINE S == ToSet(Skills)
    <3>1. Skills \in Seq(S)
      BY SkillsAssumption
    <3> HIDE DEF S
    <3> QED BY <3>1, Lengths
  <2>1. \A k \in 1..Len(Skills) : Skills[k] \in ToSet(Skills) /\ Put("skill", Skills[k]) \in Things
    BY <2>0 DEF Put, Things, Names
  <2>2. CASE skills
    <3> DEFINE d == [i \in DOMAIN Skills |-> Put("skill", Skills[i])]
    <3>1. d \in Seq(Things) /\ Len(d) = Len(Skills) /\ \A k \in 1..Len(Skills) : d[k] = Put("skill", Skills[k])
      BY <2>0, <2>1
    <3>2. c = d
      BY <2>2
    <3> HIDE DEF c, d
    <3> QED BY <2>1, <3>1, <3>2
  <2>3. CASE ~skills
    BY <2>3
  <2> QED BY <2>2, <2>3
<1> HIDE DEF a, b, c
<1>4. /\ todo \in Seq(Things)
      /\ \A i \in 1..Len(todo) :
           \/ i \in 1..Len(a) /\ todo[i] = a[i]
           \/ i > Len(a) /\ (\E k \in 1..Len(b) : todo[i] = b[k])
           \/ i > Len(a) /\ (\E k \in 1..Len(c) : todo[i] = c[k])
      /\ \A i \in 1..Len(a) : i \in 1..Len(todo) /\ todo[i] = a[i]
      /\ Len(a) \in Nat /\ Len(todo) \in Nat /\ Len(todo) >= Len(a)
  BY <1>1, <1>2, <1>3, Sequences3
<1> HIDE DEF todo
<1>5. ASSUME NEW i \in 1..Len(todo)
      PROVE  \/ a = Template /\ i = 1 /\ todo[i].do = "template" /\ todo[i].on = "pipeline.py"
             \/ todo[i].do = "ignore" /\ todo[i].on \in ToSet(Ours)
             \/ todo[i].do = "link" /\ todo[i].on = "config.toml"
             \/ todo[i].do = "skill" /\ todo[i].on \in ToSet(Skills)
  <2>1. CASE i \in 1..Len(a) /\ todo[i] = a[i]
    <3>1. a = Template
      BY <1>1, <2>1
    <3>2. CASE i = 1
      BY <2>1, <3>1, <3>2, TemplateIs DEF Put
    <3>3. CASE i # 1
      <4>1. i - 1 \in 1..Len(Ours) /\ (i - 1) + 1 = i
        BY <2>1, <3>1, <3>3, TemplateIs, Entries
      <4>2. todo[i] = Put("ignore", Ours[i - 1]) /\ Ours[i - 1] \in ToSet(Ours)
        BY <2>1, <3>1, <4>1, TemplateIs, Entries
      <4> QED BY <4>2 DEF Put
    <3> QED BY <3>2, <3>3
  <2>2. CASE \E k \in 1..Len(b) : todo[i] = b[k]
    BY <1>2, <2>2 DEF Put
  <2>3. CASE \E k \in 1..Len(c) : todo[i] = c[k]
    <3>1. PICK s \in ToSet(Skills) : todo[i] = Put("skill", s)
      BY <1>3, <2>3
    <3>2. todo[i].do = "skill" /\ todo[i].on = s
      BY <3>1 DEF Put
    <3> QED BY <3>2
  <2> QED BY <1>4, <2>1, <2>2, <2>3
<1>6. init'.todo = todo /\ init' \in [force : BOOLEAN, todo : Seq(Things)]
  BY <1>0, <1>4
<1>7. ~Doing("finish")'
  <2>1. todo # <<>> => 1 \in 1..Len(todo)
    BY <1>4
  <2> QED BY <1>5, <1>6, <2>1 DEF Doing, Resting
<1>8. Doing("template")' => a = Template
  <2>1. todo # <<>> => 1 \in 1..Len(todo)
    BY <1>4
  <2> QED BY <1>5, <1>6, <2>1 DEF Doing, Resting
<1>9. ASSUME a = Template
      PROVE  Len(todo) > Len(Ours) /\ \A k \in 1..Len(Ours) : todo[k + 1] = Put("ignore", Ours[k])
  <2>1. Len(a) = 1 + Len(Ours) /\ \A k \in 1..Len(Ours) : k + 1 \in 1..Len(a) /\ a[k + 1] = Put("ignore", Ours[k])
    BY <1>9, TemplateIs, Entries
  <2> QED BY <1>4, <2>1, Entries
<1>10. TodoOK'
  <2>1. ASSUME NEW i \in 1..Len(todo)
        PROVE  LET x == todo[i] IN
               /\ x.do = "ignore" => x.on \in ToSet(Ours)
               /\ x.do = "template" => x.on = "pipeline.py"
               /\ x.do = "link" => x.on = "config.toml"
               /\ x.do = "skill" => x.on \in ToSet(Skills)
               /\ x.do = "finish" => x.on \in Names
               /\ x.do \in {"template", "finish"} => i = 1
    BY <1>5
  <2> QED BY <1>6, <1>7, <1>8, <1>9, <2>1 DEF TodoOK
<1>15. runs' \in 0..MaxRuns
  BY <1>0, RunsAssumption DEF ScaffoldInv, ScaffoldShape
<1>11. ScaffoldShape'
  BY <1>0, <1>6, <1>15 DEF ScaffoldInv, ScaffoldShape
<1>12. ScaffoldTypeOK'
  BY <1>0, <1>15 DEF ScaffoldInv, ScaffoldTypeOK, Doing
<1>13. IgnoreOK'
  <2>1. \A e : ~Pending(e)
    BY <1>0 DEF Pending, Resting
  <2>2. \A e : Listed(e) => Listed(e)'
    BY <1>0 DEF Listed
  <2> QED BY <1>0, <2>1, <2>2 DEF ScaffoldInv, IgnoreOK
<1>14. EntriesOnce'
  BY <1>0 DEF ScaffoldInv, EntriesOnce
<1> QED BY <1>10, <1>11, <1>12, <1>13, <1>14 DEF ScaffoldInv

LEMMA RunDies == ScaffoldInv /\ Die => ScaffoldInv'
<1> SUFFICES ASSUME ScaffoldInv, Die PROVE ScaffoldInv'
  OBVIOUS
<1> USE DEF ScaffoldInv
<1>1. init' = NoRun /\ cut' = TRUE /\ UNCHANGED <<files, other, version, runs, touches>>
  BY DEF Die
<1>2. init'.todo = <<>> /\ init' \in [force : BOOLEAN, todo : Seq(Things)] /\ ~Doing("template")' /\ ~Doing("finish")'
  <2>1. <<>> \in Seq(Things)
    OBVIOUS
  <2> QED BY <1>1, <2>1 DEF NoRun, Doing, Resting
<1>3. /\ ignore' \in [there : BOOLEAN, lines : Seq(AnyLine), ended : BOOLEAN]
      /\ ~ignore'.there => ignore'.lines = <<>>
      /\ EntriesOnce'
  <2>1. CASE UNCHANGED ignore
    BY <2>1 DEF ScaffoldShape, ScaffoldTypeOK, EntriesOnce
  <2>2. CASE ignore' = [NoFile EXCEPT !.there = TRUE]
    <3>1. ignore' = [there |-> TRUE, lines |-> <<>>, ended |-> TRUE]
      BY <2>2 DEF NoFile
    <3>2. <<>> \in Seq(AnyLine) /\ DOMAIN <<>> = {}
      OBVIOUS
    <3> QED BY <3>1, <3>2 DEF EntriesOnce
  <2> QED BY <2>1, <2>2 DEF Die
<1>4. ScaffoldShape'
  BY <1>1, <1>2, <1>3 DEF ScaffoldShape
<1>5. ScaffoldTypeOK'
  BY <1>1, <1>3 DEF ScaffoldTypeOK
<1>6. TodoOK'
  <2>1. Len(<<>>) = 0
    OBVIOUS
  <2> QED BY <1>2, <2>1 DEF TodoOK
<1>7. IgnoreOK'
  BY <1>1 DEF IgnoreOK
<1> QED BY <1>3, <1>4, <1>5, <1>6, <1>7

\* The user's moves leave the run alone.
LEMMA FileTouched ==
  ASSUME ScaffoldInv, Touch, NEW n \in Names, NEW f \in FileRec, files' = [files EXCEPT ![n] = f],
         f.by \in {"user", "nobody"}, UNCHANGED <<other, ignore, version>>
  PROVE  ScaffoldInv'
<1> USE DEF ScaffoldInv
<1>1. /\ ~Doing("finish") /\ touches' = touches + 1 /\ touches < MaxTouches /\ UNCHANGED <<init, runs, cut>>
  BY DEF Touch
<1>2. /\ files' \in [Names -> FileRec] /\ files'[n] = f
      /\ \A m \in Names : m # n => files'[m] = files[m]
  BY DEF ScaffoldShape
<1>3. touches' \in 0..MaxTouches
  BY <1>1, RunsAssumption DEF ScaffoldShape
<1>4. ScaffoldShape'
  BY <1>1, <1>2, <1>3 DEF ScaffoldShape
<1>5. ScaffoldTypeOK'
  <2>1. \A m \in Names : files'[m].by \in {"nobody", "hm", "user", "torn"} /\ files'[m].of \in Nat
    BY <1>2 DEF FileRec
  <2>2. \A m \in Names : files'[m].by = "torn" => cut'
    BY <1>1, <1>2 DEF ScaffoldTypeOK
  <2> QED BY <1>1, <1>3, <2>1, <2>2 DEF ScaffoldTypeOK
<1>6. TodoOK'
  <2>1. ~Doing("finish")' /\ (Doing("template")' => Doing("template"))
    BY <1>1 DEF Doing, Resting
  <2> QED BY <1>1, <2>1 DEF TodoOK
<1>7. IgnoreOK'
  <2>1. \A e : (Listed(e)' <=> Listed(e)) /\ (Pending(e)' <=> Pending(e))
    BY <1>1 DEF Listed, Pending
  <2>2. Doing("template")' <=> Doing("template")
    BY <1>1 DEF Doing, Resting
  <2>3. "pipeline.py" \in Names
    BY DEF Names
  <2> QED BY <1>1, <1>2, <2>1, <2>2, <2>3 DEF IgnoreOK
<1>8. EntriesOnce'
  BY DEF EntriesOnce
<1> QED BY <1>4, <1>5, <1>6, <1>7, <1>8

LEMMA LineAdded == ASSUME ScaffoldInv, NEW l \in Theirs, NEW ended \in BOOLEAN, AddLine(l, ended) PROVE ScaffoldInv'
<1> USE DEF ScaffoldInv
<1>1. /\ ~Doing("finish") /\ touches' = touches + 1 /\ touches < MaxTouches
      /\ UNCHANGED <<init, runs, cut, files, other, version>>
      /\ ignore' = [there |-> TRUE, lines |-> Append(ignore.lines, l), ended |-> ended]
  BY DEF AddLine, Touch
<1>2. l \in AnyLine /\ l \notin ToSet(Ours)
  BY EntriesAssumption DEF AnyLine
<1>3. ignore'.lines = Append(ignore.lines, l) /\ ignore'.there
  BY <1>1
<1>4. /\ ignore'.lines \in Seq(AnyLine)
      /\ EntriesOnce' /\ (\A e : Listed(e) => Listed(e)')
  BY <1>2, <1>3, LineAppended
<1>5. touches' \in 0..MaxTouches
  BY <1>1, RunsAssumption DEF ScaffoldShape
<1>6. ScaffoldShape'
  BY <1>1, <1>3, <1>4, <1>5 DEF ScaffoldShape
<1>7. ScaffoldTypeOK'
  <2>1. \A m \in Names : files'[m].by = "torn" => cut'
    BY <1>1 DEF ScaffoldTypeOK
  <2> QED BY <1>1, <1>3, <1>5, <2>1 DEF ScaffoldTypeOK
<1>8. TodoOK'
  <2>1. ~Doing("finish")' /\ (Doing("template")' => Doing("template"))
    BY <1>1 DEF Doing, Resting
  <2> QED BY <1>1, <2>1 DEF TodoOK
<1>9. IgnoreOK'
  <2>1. \A e : Pending(e)' <=> Pending(e)
    BY <1>1 DEF Pending
  <2>2. Doing("template")' <=> Doing("template")
    BY <1>1 DEF Doing, Resting
  <2> QED BY <1>1, <1>4, <2>1, <2>2 DEF IgnoreOK
<1> QED BY <1>4, <1>6, <1>7, <1>8, <1>9

\* Nothing but the version and the count of the user's moves changes.
LEMMA Upgraded == ScaffoldInv /\ (Upgrade \/ UNCHANGED scaffold) => ScaffoldInv'
<1> SUFFICES ASSUME ScaffoldInv, Upgrade \/ UNCHANGED scaffold PROVE ScaffoldInv'
  OBVIOUS
<1> USE DEF ScaffoldInv
<1>1. UNCHANGED <<files, other, ignore, init, runs, cut>>
  BY DEF Upgrade, Touch, scaffold
<1>2. version' \in Nat /\ touches' \in 0..MaxTouches
  BY RunsAssumption DEF Upgrade, Touch, scaffold, ScaffoldShape
<1>3. ScaffoldShape'
  BY <1>1, <1>2 DEF ScaffoldShape
<1>4. \A w : Doing(w)' <=> Doing(w)
  BY <1>1 DEF Doing, Resting
<1>5. ScaffoldTypeOK'
  <2>1. \A m \in Names : files'[m].by = "torn" => cut' \/ (Doing("finish")' /\ Item' = m)
    BY <1>1, <1>4 DEF ScaffoldTypeOK, Item
  <2> QED BY <1>1, <1>2, <2>1 DEF ScaffoldTypeOK
<1>6. TodoOK'
  <2>1. Item' = Item
    BY <1>1 DEF Item
  <2> QED BY <1>1, <1>4, <2>1 DEF TodoOK
<1>7. IgnoreOK'
  <2>1. \A e : (Listed(e)' <=> Listed(e)) /\ (Pending(e)' <=> Pending(e))
    BY <1>1 DEF Listed, Pending
  <2> QED BY <1>1, <1>4, <2>1 DEF IgnoreOK
<1>8. EntriesOnce'
  BY <1>1 DEF EntriesOnce
<1> QED BY <1>3, <1>5, <1>6, <1>7, <1>8

LEMMA ScaffoldKept == ScaffoldInv /\ [ScaffoldNext]_scaffold => ScaffoldInv'
<1> SUFFICES ASSUME ScaffoldInv, [ScaffoldNext]_scaffold PROVE ScaffoldInv'
  OBVIOUS
<1>1. CASE \E flag, force, tty, link, skills \in BOOLEAN : RunInit(flag, force, tty, link, skills)
  BY <1>1, RunBegins
<1>2. ASSUME NEW n \in Names, EditProjectFile(n) PROVE ScaffoldInv'
  <2> DEFINE f == [by |-> "user", of |-> touches]
  <2>1. f \in FileRec /\ f.by = "user"
    BY DEF ScaffoldInv, ScaffoldShape, FileRec
  <2>2. Touch /\ files' = [files EXCEPT ![n] = f] /\ UNCHANGED <<other, ignore, version>>
    BY <1>2 DEF EditProjectFile
  <2> HIDE DEF f
  <2> QED BY <2>1, <2>2, FileTouched
<1>3. ASSUME NEW n \in Names, DeleteFile(n) PROVE ScaffoldInv'
  <2>1. Missing \in FileRec /\ Missing.by = "nobody"
    BY DEF Missing, FileRec
  <2>2. Touch /\ files' = [files EXCEPT ![n] = Missing] /\ UNCHANGED <<other, ignore, version>>
    BY <1>3 DEF DeleteFile
  <2> QED BY <2>1, <2>2, FileTouched
<1>4. CASE \E l \in Theirs, ended \in BOOLEAN : AddLine(l, ended)
  BY <1>4, LineAdded
<1> QED BY <1>1, <1>2, <1>3, <1>4, TemplateWritten, SkillWritten, LinkWritten, ContentsWritten,
            EntryAdded, RunDies, Upgraded DEF ScaffoldNext

\* A file that a run replaces although the user wrote it was forced upon, or is
\* the config.
LEMMA UserFilesStay ==
  ScaffoldInv /\ [ScaffoldNext]_scaffold =>
    (touches' = touches =>
       \A n \in Names : files[n].by = "user" => files'[n] = files[n] \/ init.force \/ n = "config.toml")
<1> SUFFICES ASSUME ScaffoldInv, [ScaffoldNext]_scaffold, touches' = touches, NEW n \in Names,
                    files[n].by = "user"
             PROVE  files'[n] = files[n] \/ init.force \/ n = "config.toml"
  OBVIOUS
<1>0. files \in [Names -> FileRec] /\ touches \in Nat
  BY DEF ScaffoldInv, ScaffoldShape
<1>1. ~Touch
  BY <1>0 DEF Touch
<1>2. CASE WriteTemplate
  <2>1. ThereIs("pipeline.py") => PipelineNow
    BY DEF PipelineNow, HasPipeline
  <2> QED BY <1>0, <1>2, <2>1 DEF WriteTemplate, Truncate, ThereIs
<1>3. CASE WriteSkill
  BY <1>0, <1>3 DEF WriteSkill, Truncate, Keep, ThereIs
<1>4. CASE WriteLink
  BY <1>0, <1>4 DEF WriteLink, Truncate
<1>5. CASE WriteContents
  <2>1. files[Item].by = "torn"
    BY <1>5 DEF WriteContents, ScaffoldInv, TodoOK
  <2> QED BY <1>0, <1>5, <2>1 DEF WriteContents
<1>6. CASE Die \/ EnsureIgnored \/ UNCHANGED scaffold
  BY <1>6 DEF Die, EnsureIgnored, scaffold
<1>7. CASE \E flag, force, tty, link, skills \in BOOLEAN : RunInit(flag, force, tty, link, skills)
  BY <1>7 DEF RunInit
<1> QED BY <1>1, <1>2, <1>3, <1>4, <1>5, <1>6, <1>7 DEF ScaffoldNext, EditProjectFile, DeleteFile, AddLine, Upgrade

\* A run adds lines of its own and keeps the rest, or dies over the file.
LEMMA UserLinesStay ==
  ScaffoldInv /\ [ScaffoldNext]_scaffold =>
    (touches' = touches =>
       \/ /\ \A i \in DOMAIN ignore.lines : i \in DOMAIN ignore'.lines /\ ignore'.lines[i] = ignore.lines[i]
          /\ \A i \in DOMAIN ignore'.lines : ignore'.lines[i] \in Theirs \ {""} => i \in DOMAIN ignore.lines
       \/ cut' /\ Resting')
<1> DEFINE Stay == /\ \A i \in DOMAIN ignore.lines :
                        i \in DOMAIN ignore'.lines /\ ignore'.lines[i] = ignore.lines[i]
                   /\ \A i \in DOMAIN ignore'.lines :
                        ignore'.lines[i] \in Theirs \ {""} => i \in DOMAIN ignore.lines
<1> SUFFICES ASSUME ScaffoldInv, [ScaffoldNext]_scaffold, touches' = touches
             PROVE  Stay \/ (cut' /\ Resting')
  OBVIOUS
<1>0. touches \in Nat
  BY DEF ScaffoldInv, ScaffoldShape
<1>1. ~Touch
  BY <1>0 DEF Touch
<1>2. CASE UNCHANGED ignore
  BY <1>2
<1>3. CASE EnsureIgnored
  <2>1. PICK x \in ToSet(Ours) : x = Item
    BY <1>3, HeadIs DEF EnsureIgnored, Doing, ScaffoldInv
  <2>2. CASE Listed(x)
    BY <1>2, <1>3, <2>1, <2>2 DEF EnsureIgnored
  <2>3. CASE ~Listed(x)
    <3>1. ignore' = [there |-> TRUE, lines |-> Appended(x), ended |-> TRUE]
      BY <1>3, <2>1, <2>3 DEF EnsureIgnored
    <3>2. ignore'.lines = Appended(x)
      BY <3>1
    <3>3. /\ \A i \in DOMAIN ignore.lines : i \in DOMAIN ignore'.lines /\ ignore'.lines[i] = ignore.lines[i]
          /\ \A i \in DOMAIN ignore'.lines : ignore'.lines[i] \notin {"", x} => i \in DOMAIN ignore.lines
      BY <2>3, <3>2, EntryAppended
    <3>4. x \notin Theirs
      BY EntriesAssumption
    <3> QED BY <3>3, <3>4
  <2> QED BY <2>2, <2>3
<1>4. CASE Die
  BY <1>4 DEF Die, NoRun, Resting
<1>5. CASE WriteTemplate \/ WriteSkill \/ WriteLink \/ WriteContents \/ UNCHANGED scaffold
           \/ \E flag, force, tty, link, skills \in BOOLEAN : RunInit(flag, force, tty, link, skills)
  BY <1>2, <1>5 DEF WriteTemplate, WriteSkill, WriteLink, WriteContents, scaffold, RunInit
<1> QED BY <1>1, <1>3, <1>4, <1>5 DEF ScaffoldNext, EditProjectFile, DeleteFile, AddLine, Upgrade

\* However often hm init runs, wherever it is cut and whatever the user does in
\* between: .gitignore gets each entry once and keeps the user's lines, a
\* pipeline of hm's comes with its entries, and what the user wrote stays
\* unless it was forced or is linked (init.rs).
THEOREM ScaffoldHolds == ScaffoldSpec => ScaffoldKeeps
<1>1. ScaffoldInit => ScaffoldInv
  <2> SUFFICES ASSUME ScaffoldInit PROVE ScaffoldInv
    OBVIOUS
  <2>1. /\ files = [n \in Names |-> Missing] /\ ignore = NoFile /\ version = 1 /\ init = NoRun
        /\ runs = 0 /\ touches = 0 /\ cut = FALSE
    BY DEF ScaffoldInit
  <2>2. Missing \in FileRec /\ Missing.by = "nobody" /\ "pipeline.py" \in Names
    BY DEF Missing, FileRec, Names
  <2>3. <<>> \in Seq(AnyLine) /\ <<>> \in Seq(Things) /\ DOMAIN <<>> = {} /\ Len(<<>>) = 0
    OBVIOUS
  <2>4. ignore.lines = <<>> /\ init.todo = <<>>
    BY <2>1 DEF NoFile, NoRun
  <2>5. ScaffoldShape
    BY <2>1, <2>2, <2>3, RunsAssumption DEF ScaffoldShape, NoFile, NoRun
  <2>6. ScaffoldTypeOK
    BY <2>1, <2>2, <2>4, <2>5 DEF ScaffoldTypeOK, ScaffoldShape, FileRec
  <2>7. TodoOK
    BY <2>3, <2>4 DEF TodoOK, Doing, Resting
  <2>8. IgnoreOK
    BY <2>1, <2>2 DEF IgnoreOK
  <2>9. EntriesOnce
    BY <2>3, <2>4 DEF EntriesOnce
  <2> QED BY <2>5, <2>6, <2>7, <2>8, <2>9 DEF ScaffoldInv
<1>2. ScaffoldInv => ScaffoldTypeOK /\ EntriesOnce /\ EntriesThere
  <2>1. ASSUME ScaffoldInv, Resting, files["pipeline.py"].by = "hm", ~cut
        PROVE  ToSet(Ours) \subseteq ToSet(ignore.lines)
    <3>1. \A e : ~Pending(e)
      BY <2>1 DEF Pending, Resting
    <3>2. \A e \in ToSet(Ours) : Listed(e)
      BY <2>1, <3>1 DEF ScaffoldInv, IgnoreOK
    <3> QED BY <3>2 DEF Listed, ToSet
  <2> QED BY <2>1 DEF ScaffoldInv, EntriesThere
<1>3. ScaffoldSpec => []ScaffoldInv
  BY <1>1, ScaffoldKept, PTL DEF ScaffoldSpec
<1>4. ScaffoldSpec => UserWorkKept
  BY <1>3, UserFilesStay, PTL DEF ScaffoldSpec, UserWorkKept
<1>5. ScaffoldSpec => TheirLinesKept
  BY <1>3, UserLinesStay, PTL DEF ScaffoldSpec, TheirLinesKept
<1> QED BY <1>2, <1>3, <1>4, <1>5, PTL DEF ScaffoldKeeps

-----------------------------------------------------------------------------
(* Functions recursive over the naturals.                                   *)

Below == {x \in Nat \X Nat : x[1] < x[2]}

\* A set of naturals that has a member has a least one.
LEMMA Least ==
  ASSUME NEW T \in SUBSET Nat, T # {}
  PROVE  \E n \in T : \A m \in T : n <= m
<1>1. IsWellFoundedOn(Below, Nat)
  BY NatLessThanWellFounded DEF OpToRel, Below
<1>2. PICK n \in T : \A m \in T : ~(<<m, n>> \in Below)
  BY <1>1, WFMin
<1>3. ASSUME NEW m \in T PROVE n <= m
  <2>1. m \in Nat /\ n \in Nat /\ ~(<<m, n>> \in Below)
    BY <1>2
  <2>2. ~(m < n)
    BY <2>1 DEF Below
  <2>3. QED
    BY <2>1, <2>2
<1>4. QED
  BY <1>2, <1>3

\* Induction up to N, over the set of the numbers at which a fact holds.
LEMMA UpTo ==
  ASSUME NEW N \in Nat, NEW T, 0 \in T, \A n \in 1..N : n - 1 \in T => n \in T
  PROVE  \A n \in 0..N : n \in T
<1> DEFINE Bad == {n \in 0..N : n \notin T}
<1>1. SUFFICES ASSUME Bad # {} PROVE FALSE
  OBVIOUS
<1>2. PICK n \in Bad : \A m \in Bad : n <= m
  <2>1. Bad \in SUBSET Nat
    OBVIOUS
  <2> HIDE DEF Bad
  <2>2. QED
    BY <1>1, <2>1, Least
<1>3. n \in 0..N /\ n \notin T /\ n # 0
  BY <1>2
<1>4. n \in 1..N /\ n - 1 \in 0..N /\ n - 1 < n
  BY <1>3
<1>5. n - 1 \in T
  BY <1>2, <1>4
<1>6. QED
  BY <1>3, <1>4, <1>5

\* A function recursive over 0..N exists, whatever its steps are.
Recurs(f, N, S, x, F) == f \in [0..N -> S] /\ f[0] = x /\ \A n \in 1..N : f[n] = F[n][f[n - 1]]

LEMMA Recursion ==
  ASSUME NEW N \in Nat, NEW S, NEW x \in S, NEW F \in [1..N -> [S -> S]]
  PROVE  \E f : Recurs(f, N, S, x, F)
<1> DEFINE Upto(n, f) == f \in [0..n -> S] /\ f[0] = x /\ \A i \in 1..n : f[i] = F[i][f[i - 1]]
           Has == {n \in 0..N : \E f : Upto(n, f)}
<1>1. 0 \in Has
  <2>1. Upto(0, [i \in 0..0 |-> x])
    OBVIOUS
  <2>2. 0 \in 0..N
    OBVIOUS
  <2>3. \E f : Upto(0, f)
    BY <2>1
  <2> HIDE DEF Upto
  <2>4. QED
    BY <2>2, <2>3
<1>2. ASSUME NEW n \in 1..N, n - 1 \in Has PROVE n \in Has
  <2>1. PICK f : Upto(n - 1, f)
    BY <1>2
  <2>2. n - 1 \in 0..(n - 1) /\ n \in Nat /\ n \in 0..N /\ 0 \in 0..(n - 1) /\ n # 0 /\ n - 1 # n
    OBVIOUS
  <2> DEFINE new == F[n][f[n - 1]]
             g == [i \in 0..n |-> IF i = n THEN new ELSE f[i]]
  <2>3. new \in S
    BY <2>1, <2>2
  <2> HIDE DEF new
  <2>4. g \in [0..n -> S] /\ g[0] = x
    BY <2>1, <2>2, <2>3
  <2>5. \A i \in 1..n : g[i] = F[i][g[i - 1]]
    <3>1. ASSUME NEW i \in 1..n, i # n PROVE g[i] = F[i][g[i - 1]]
      <4>1. i \in 1..(n - 1) /\ i - 1 \in 0..n /\ i - 1 # n /\ i \in 0..n
        BY <2>2, <3>1
      <4>2. g[i] = f[i] /\ g[i - 1] = f[i - 1]
        BY <3>1, <4>1
      <4>3. QED
        BY <2>1, <4>1, <4>2
    <3>2. g[n] = new /\ g[n - 1] = f[n - 1]
      BY <2>2
    <3>3. QED
      BY <3>1, <3>2 DEF new
  <2>6. Upto(n, g)
    BY <2>4, <2>5
  <2>7. QED
    BY <2>2, <2>6
<1> HIDE DEF Has
<1>3. \A n \in 0..N : n \in Has
  BY <1>1, <1>2, UpTo
<1>4. QED
  <2>1. N \in Has
    BY <1>3
  <2>2. QED
    BY <2>1 DEF Has, Recurs

(* The chains of a plan's graph.                                            *)

ChainsSpec == ChainsInit /\ [][ChainsNext]_edges

EdgesOK == edges \subseteq Nodes \X Nodes \X Kinds /\ IsFiniteSet(edges)

LEMMA EdgesAdded == EdgesOK /\ [ChainsNext]_edges => EdgesOK'
<1> SUFFICES ASSUME EdgesOK, [ChainsNext]_edges PROVE EdgesOK'
  OBVIOUS
<1>1. CASE ChainsNext
  <2>1. PICK p, c \in Nodes, kind \in Kinds : AddEdge(p, c, kind)
    BY <1>1 DEF ChainsNext
  <2>2. edges' = edges \cup {<<p, c, kind>>}
    BY <2>1 DEF AddEdge
  <2>3. IsFiniteSet(edges')
    BY <2>2, FS_AddElement DEF EdgesOK
  <2>4. edges' \subseteq Nodes \X Nodes \X Kinds
    BY <2>2 DEF EdgesOK
  <2>5. QED
    BY <2>3, <2>4 DEF EdgesOK, Nodes
<1>2. CASE UNCHANGED edges
  BY <1>2 DEF EdgesOK, Nodes
<1>3. QED
  BY <1>1, <1>2

\* The code's rule, that n has one child to boot and the child one parent, is
\* lineage.
LEMMA FollowsIs ==
  ASSUME EdgesOK, NEW n \in Nodes, NEW c \in Nodes, NEW A
  PROVE  Follows(n, c, A) <=> Lineage(n, c) /\ c \notin A
<1>1. IsFiniteSet(EdgesInto(c))
  <2>1. EdgesInto(c) \in SUBSET edges
    BY DEF EdgesInto
  <2>2. QED
    BY <2>1, FS_Subset DEF EdgesOK
<1>2. ASSUME Follows(n, c, A) PROVE Lineage(n, c)
  <2>1. BuildsInChildren(n) = {c} /\ Cardinality(EdgesInto(c)) = 1
    BY <1>2 DEF Follows
  <2>2. PICK x : EdgesInto(c) = {x}
    BY <1>1, <2>1, FS_Singleton
  <2>3. <<n, c, "builds_in">> \in edges
    BY <2>1 DEF BuildsInChildren
  <2>4. <<n, c, "builds_in">> \in EdgesInto(c)
    BY <2>3 DEF EdgesInto
  <2>5. QED
    BY <2>1, <2>2, <2>4 DEF Lineage
<1>3. ASSUME Lineage(n, c) PROVE Cardinality(EdgesInto(c)) = 1
  BY <1>3, FS_Singleton DEF Lineage
<1>4. QED
  BY <1>2, <1>3 DEF Follows, Lineage

\* A step has one lineage parent at most, and one lineage child.
LEMMA OneLineage ==
  ASSUME NEW n, NEW m, NEW c, NEW d
  PROVE  /\ Lineage(n, c) /\ Lineage(m, c) => n = m
         /\ Lineage(n, c) /\ Lineage(n, d) => c = d
<1>1. ASSUME Lineage(n, c), Lineage(m, c) PROVE n = m
  <2>1. {<<n, c, "builds_in">>} = {<<m, c, "builds_in">>}
    BY <1>1 DEF Lineage
  <2>2. <<n, c, "builds_in">> = <<m, c, "builds_in">>
    BY <2>1
  <2>3. QED
    BY <2>2
<1>2. ASSUME Lineage(n, c), Lineage(n, d) PROVE c = d
  <2>1. {c} = {d}
    BY <1>2 DEF Lineage
  <2>2. QED
    BY <2>1
<1>3. QED
  BY <1>1, <1>2

\* Extending a chain adds the lineage child of its last step, unless that is
\* assigned or there is none.
Ended(chain, A) == \A c \in Nodes : Lineage(Last(chain), c) => c \in A \/ c \in ToSet(chain)
Extends(chain, A, c) == Lineage(Last(chain), c) /\ c \notin A /\ c \notin ToSet(chain)

LEMMA ExtendedIs ==
  ASSUME EdgesOK, NEW chain \in Seq(Nodes), chain # <<>>, NEW A
  PROVE  \/ Extended(chain, A) = chain /\ Ended(chain, A)
         \/ \E c \in Nodes : Extends(chain, A, c) /\ Extended(chain, A) = Append(chain, c)
<1> DEFINE on == {c \in Nodes : Follows(Last(chain), c, A \cup ToSet(chain))}
<1>1. Last(chain) \in Nodes
  BY DEF Last
<1>2. \A c \in Nodes : c \in on <=> Extends(chain, A, c)
  BY <1>1, FollowsIs DEF Extends
<1>3. Extended(chain, A) = IF on = {} THEN chain ELSE Append(chain, CHOOSE c \in on : TRUE)
  BY DEF Extended
<1>4. on \subseteq Nodes
  OBVIOUS
<1> HIDE DEF on
<1>5. CASE on = {}
  BY <1>2, <1>3, <1>5 DEF Extends, Ended
<1>6. CASE on # {}
  <2>1. (CHOOSE c \in on : TRUE) \in on
    BY <1>6
  <2>2. QED
    BY <1>2, <1>3, <1>4, <1>6, <2>1
<1>7. QED
  BY <1>5, <1>6

\* A chain from a step, of those not assigned: no step twice, and each the
\* lineage child of the one before it.
ChainOK(chain, start, A) ==
  /\ chain \in Seq(Nodes) /\ Len(chain) >= 1 /\ chain[1] = start
  /\ \A k, l \in 1..Len(chain) : chain[k] = chain[l] => k = l
  /\ \A k \in 1..Len(chain) : chain[k] \notin A
  /\ \A k \in 2..Len(chain) : Lineage(chain[k - 1], chain[k])

LEMMA ChainExtended ==
  ASSUME EdgesOK, NEW start \in Nodes, NEW A, NEW chain, ChainOK(chain, start, A)
  PROVE  /\ ChainOK(Extended(chain, A), start, A)
         /\ \/ Extended(chain, A) = chain /\ Ended(chain, A)
            \/ Len(Extended(chain, A)) = Len(chain) + 1
<1>1. chain \in Seq(Nodes) /\ chain # <<>> /\ Len(chain) \in Nat /\ Len(chain) >= 1 /\ DOMAIN chain = 1..Len(chain)
  BY DEF ChainOK
<1>2. CASE Extended(chain, A) = chain /\ Ended(chain, A)
  BY <1>2
<1>3. ASSUME NEW c \in Nodes, Extends(chain, A, c), Extended(chain, A) = Append(chain, c)
      PROVE  ChainOK(Extended(chain, A), start, A) /\ Len(Extended(chain, A)) = Len(chain) + 1
  <2> DEFINE r == Append(chain, c)
  <2>1. /\ r \in Seq(Nodes) /\ Len(r) = Len(chain) + 1
        /\ \A k \in 1..Len(chain) : r[k] = chain[k]
        /\ r[Len(chain) + 1] = c
    BY <1>1
  <2> HIDE DEF r
  <2>2. \A k \in 1..Len(r) : k \in 1..Len(chain) \/ k = Len(chain) + 1
    BY <1>1, <2>1
  <2>3. c \notin A /\ \A k \in 1..Len(chain) : chain[k] # c
    BY <1>1, <1>3 DEF Extends, ToSet
  <2>4. \A k, l \in 1..Len(r) : r[k] = r[l] => k = l
    BY <2>1, <2>2, <2>3 DEF ChainOK
  <2>5. \A k \in 1..Len(r) : r[k] \notin A
    BY <2>1, <2>2, <2>3 DEF ChainOK
  <2>6. ASSUME NEW k \in 2..Len(r) PROVE Lineage(r[k - 1], r[k])
    <3>1. CASE k = Len(chain) + 1
      <4>1. r[k - 1] = chain[Len(chain)]
        BY <1>1, <2>1, <3>1
      <4>2. QED
        BY <1>3, <2>1, <3>1, <4>1 DEF Extends, Last
    <3>2. CASE k # Len(chain) + 1
      <4>1. k \in 2..Len(chain) /\ k \in 1..Len(chain) /\ k - 1 \in 1..Len(chain)
        BY <1>1, <2>1, <3>2
      <4>2. QED
        BY <2>1, <4>1 DEF ChainOK
    <3>3. QED
      BY <3>1, <3>2
  <2>7. r[1] = start /\ Len(r) >= 1
    BY <1>1, <2>1 DEF ChainOK
  <2>8. ChainOK(r, start, A)
    BY <2>1, <2>4, <2>5, <2>6, <2>7 DEF ChainOK
  <2>9. QED
    BY <1>3, <2>1, <2>8 DEF r
<1>4. QED
  BY <1>1, <1>2, <1>3, ExtendedIs

WalkOf(w, start, A) == w = [k \in 0..Size |-> IF k = 0 THEN <<start>> ELSE Extended(w[k - 1], A)]

LEMMA WalkIs ==
  ASSUME EdgesOK, NEW start \in Nodes, NEW A
  PROVE  \E w : /\ w \in [0..Size -> Seq(Nodes)] /\ w[0] = <<start>>
                /\ \A k \in 1..Size : w[k] = Extended(w[k - 1], A)
                /\ ChainFrom(start, A) = w[Size]
<1> DEFINE S == {q \in Seq(Nodes) : q # <<>>}
           F == [k \in 1..Size |-> [q \in S |-> Extended(q, A)]]
           walk == CHOOSE w : WalkOf(w, start, A)
<1>1. Size \in Nat /\ Size \in 0..Size
  BY SizeAssumption
<1>2. \A q \in S : Extended(q, A) \in S
  <2>1. ASSUME NEW q \in S PROVE Extended(q, A) \in S
    <3>1. ASSUME NEW c \in Nodes PROVE Append(q, c) \in S
      OBVIOUS
    <3>2. QED
      BY <3>1, ExtendedIs
  <2>2. QED
    BY <2>1
<1>3. <<start>> \in S
  OBVIOUS
<1> HIDE DEF S
<1>4. F \in [1..Size -> [S -> S]]
  BY <1>2
<1>5. PICK f : /\ f \in [0..Size -> S] /\ f[0] = <<start>>
               /\ \A k \in 1..Size : f[k] = F[k][f[k - 1]]
  <2> DEFINE first == <<start>>
  <2>1. first \in S
    BY <1>3
  <2> HIDE DEF F, first
  <2>2. \E f : Recurs(f, Size, S, first, F)
    BY <1>1, <1>4, <2>1, Recursion
  <2>3. QED
    BY <2>2 DEF first, Recurs
<1>6. WalkOf(f, start, A)
  <2>1. ASSUME NEW k \in 1..Size PROVE f[k] = Extended(f[k - 1], A)
    <3>1. k - 1 \in 0..Size
      BY <1>1
    <3>2. f[k - 1] \in S
      BY <1>5, <3>1
    <3>3. QED
      BY <1>5, <3>2
  <2>2. \A k \in 0..Size : k = 0 \/ k \in 1..Size
    BY <1>1
  <2>3. \A k \in 0..Size : f[k] = IF k = 0 THEN <<start>> ELSE Extended(f[k - 1], A)
    BY <1>5, <2>1, <2>2
  <2>4. f = [k \in 0..Size |-> f[k]]
    BY <1>5
  <2>5. QED
    BY <2>3, <2>4 DEF WalkOf
<1>7. WalkOf(walk, start, A)
  <2> HIDE DEF walk
  <2>1. walk = CHOOSE w : WalkOf(w, start, A)
    BY DEF walk
  <2>2. QED
    BY <1>6, <2>1
<1>8. ChainFrom(start, A) = walk[Size]
  BY DEF ChainFrom, WalkOf
<1> HIDE DEF walk
<1>9. walk[0] = <<start>> /\ \A k \in 1..Size : walk[k] = Extended(walk[k - 1], A)
  <2>1. \A k \in 0..Size : walk[k] = IF k = 0 THEN <<start>> ELSE Extended(walk[k - 1], A)
    BY <1>7 DEF WalkOf
  <2>2. 0 \in 0..Size /\ \A k \in 1..Size : k \in 0..Size /\ k # 0
    BY <1>1
  <2>3. QED
    BY <2>1, <2>2
<1>10. \A k \in 0..Size : walk[k] \in S
  <2> DEFINE T == {k \in 0..Size : walk[k] \in S}
  <2>1. 0 \in T
    BY <1>1, <1>3, <1>9
  <2>2. ASSUME NEW k \in 1..Size, k - 1 \in T PROVE k \in T
    BY <1>2, <1>9, <2>2
  <2> HIDE DEF T
  <2>3. \A k \in 0..Size : k \in T
    BY <1>1, <2>1, <2>2, UpTo
  <2>4. QED
    BY <2>3 DEF T
<1>11. walk \in [0..Size -> Seq(Nodes)]
  <2>1. walk = [k \in 0..Size |-> walk[k]]
    BY <1>7 DEF WalkOf
  <2>2. \A k \in 0..Size : walk[k] \in Seq(Nodes)
    BY <1>10 DEF S
  <2>3. QED
    BY <2>1, <2>2
<1>12. QED
  BY <1>8, <1>9, <1>11

\* A chain is as long as it can be: the last step has no lineage child, or one
\* that is assigned or in the chain.
LEMMA ChainIs ==
  ASSUME EdgesOK, NEW A, NEW start \in Nodes, start \notin A
  PROVE  ChainOK(ChainFrom(start, A), start, A) /\ Ended(ChainFrom(start, A), A)
<1>1. PICK w : /\ w \in [0..Size -> Seq(Nodes)] /\ w[0] = <<start>>
               /\ \A k \in 1..Size : w[k] = Extended(w[k - 1], A)
               /\ ChainFrom(start, A) = w[Size]
  BY WalkIs
<1>2. Size \in Nat /\ Size \in 0..Size /\ 0 \in 0..Size
  BY SizeAssumption
<1> DEFINE T == {k \in 0..Size : ChainOK(w[k], start, A) /\ (Ended(w[k], A) \/ Len(w[k]) = k + 1)}
<1>3. 0 \in T
  <2> DEFINE q == <<start>>
  <2>1. q \in Seq(Nodes) /\ Len(q) = 1 /\ q[1] = start
    OBVIOUS
  <2> HIDE DEF q
  <2>2. ChainOK(q, start, A)
    BY <2>1 DEF ChainOK
  <2>3. w[0] = q
    BY <1>1 DEF q
  <2>4. QED
    BY <1>2, <2>1, <2>2, <2>3
<1>4. ASSUME NEW k \in 1..Size, k - 1 \in T PROVE k \in T
  <2>1. /\ ChainOK(w[k - 1], start, A)
        /\ Ended(w[k - 1], A) \/ Len(w[k - 1]) = (k - 1) + 1
        /\ w[k] = Extended(w[k - 1], A)
        /\ k \in 0..Size /\ k \in Nat
    BY <1>1, <1>2, <1>4
  <2> DEFINE old == w[k - 1]
  <2> HIDE DEF T
  <2>2. ChainOK(Extended(old, A), start, A)
    BY <2>1, ChainExtended
  <2>3. \/ Extended(old, A) = old /\ Ended(old, A)
        \/ Len(Extended(old, A)) = Len(old) + 1
    BY <2>1, ChainExtended
  <2>4. Ended(old, A) => Extended(old, A) = old
    <3>1. old \in Seq(Nodes) /\ old # <<>>
      BY <2>1 DEF ChainOK
    <3>2. QED
      BY <3>1, ExtendedIs DEF Ended, Extends
  <2>5. Ended(w[k], A) \/ Len(w[k]) = k + 1
    BY <2>1, <2>3, <2>4
  <2>6. QED
    BY <2>1, <2>2, <2>5 DEF T
<1> HIDE DEF T
<1>5. Size \in T
  BY <1>2, <1>3, <1>4, UpTo
<1> DEFINE chain == ChainFrom(start, A)
<1>6. ChainOK(chain, start, A) /\ (Ended(chain, A) \/ Len(chain) = Size + 1)
  BY <1>1, <1>5 DEF T
<1> HIDE DEF chain
<1>7. Len(chain) # Size + 1
  <2> SUFFICES ASSUME Len(chain) = Size + 1 PROVE FALSE
    OBVIOUS
  <2>1. chain \in [1..(Size + 1) -> Nodes]
    BY <1>2, <1>6 DEF ChainOK
  <2>2. IsFiniteSet(Nodes) /\ Cardinality(Nodes) = Size
    BY <1>2, FS_Interval DEF Nodes
  <2>3. IsFiniteSet(1..(Size + 1)) /\ Cardinality(1..(Size + 1)) = Size + 1
    BY <1>2, FS_Interval
  <2>4. Cardinality(Nodes) < Cardinality(1..(Size + 1))
    BY <1>2, <2>2, <2>3
  <2>5. PICK k, l \in 1..(Size + 1) : k # l /\ chain[k] = chain[l]
    BY <2>1, <2>2, <2>3, <2>4, FS_PigeonHole
  <2>6. QED
    BY <1>6, <2>5 DEF ChainOK
<1>8. QED
  BY <1>6, <1>7 DEF chain

\* The chains with that of one more node.
Grown(all, n) == IF n \in Assigned(all) THEN all ELSE Append(all, ChainFrom(n, Assigned(all)))

ChainLists == Seq(Seq(Nodes))

LEMMA GrownIs ==
  ASSUME EdgesOK, NEW all \in ChainLists, NEW n \in Nodes
  PROVE  Grown(all, n) \in ChainLists
<1>1. ChainFrom(n, Assigned(all)) \in Seq(Nodes)
  <2>1. PICK w : /\ w \in [0..Size -> Seq(Nodes)]
                 /\ ChainFrom(n, Assigned(all)) = w[Size]
    BY WalkIs
  <2>2. Size \in 0..Size
    BY SizeAssumption
  <2>3. QED
    BY <2>1, <2>2
<1>2. QED
  BY <1>1 DEF Grown, ChainLists

AllOf(f) == f = [n \in 0..Size |-> IF n = 0 THEN <<>> ELSE Grown(f[n - 1], n)]

LEMMA ChainedIs ==
  ASSUME EdgesOK
  PROVE  /\ Chained[0] = <<>>
         /\ \A n \in 1..Size : Chained[n] = Grown(Chained[n - 1], n)
         /\ \A n \in 0..Size : Chained[n] \in ChainLists
<1> DEFINE F == [n \in 1..Size |-> [all \in ChainLists |-> Grown(all, n)]]
           none == <<>>
<1>1. Size \in Nat /\ 0 \in 0..Size
  BY SizeAssumption
<1>2. F \in [1..Size -> [ChainLists -> ChainLists]]
  <2>1. \A n \in 1..Size : \A all \in ChainLists : Grown(all, n) \in ChainLists
    BY GrownIs DEF Nodes
  <2>2. QED
    BY <2>1
<1>3. none \in ChainLists
  BY DEF ChainLists
<1>4. PICK f : Recurs(f, Size, ChainLists, none, F)
  <2> HIDE DEF F, none
  <2>1. QED
    BY <1>1, <1>2, <1>3, Recursion
<1>5. AllOf(f)
  <2>1. ASSUME NEW n \in 1..Size PROVE f[n] = Grown(f[n - 1], n)
    <3>1. n - 1 \in 0..Size
      BY <1>1
    <3>2. f[n - 1] \in ChainLists
      BY <1>4, <3>1 DEF Recurs
    <3>3. QED
      BY <1>4, <3>2 DEF Recurs
  <2>2. \A n \in 0..Size : n = 0 \/ n \in 1..Size
    BY <1>1
  <2>3. \A n \in 0..Size : f[n] = IF n = 0 THEN <<>> ELSE Grown(f[n - 1], n)
    BY <1>4, <2>1, <2>2 DEF Recurs
  <2>4. f = [n \in 0..Size |-> f[n]]
    BY <1>4 DEF Recurs
  <2>5. QED
    BY <2>3, <2>4 DEF AllOf
<1>6. Chained = CHOOSE g : AllOf(g)
  BY DEF Chained, AllOf, Grown
<1>7. AllOf(Chained)
  BY <1>5, <1>6
<1>8. Chained[0] = <<>> /\ \A n \in 1..Size : Chained[n] = Grown(Chained[n - 1], n)
  <2>1. \A n \in 0..Size : Chained[n] = IF n = 0 THEN <<>> ELSE Grown(Chained[n - 1], n)
    BY <1>7 DEF AllOf
  <2>2. \A n \in 1..Size : n \in 0..Size /\ n # 0
    BY <1>1
  <2>3. QED
    BY <1>1, <2>1, <2>2
<1>9. \A n \in 0..Size : Chained[n] \in ChainLists
  <2> DEFINE T == {n \in 0..Size : Chained[n] \in ChainLists}
  <2>1. 0 \in T
    BY <1>1, <1>3, <1>8
  <2>2. ASSUME NEW n \in 1..Size, n - 1 \in T PROVE n \in T
    BY <1>8, <2>2, GrownIs DEF Nodes
  <2> HIDE DEF T
  <2>3. \A n \in 0..Size : n \in T
    BY <1>1, <2>1, <2>2, UpTo
  <2>4. QED
    BY <2>3 DEF T
<1>10. QED
  BY <1>8, <1>9

ParentsFirst == \A e \in edges : e[1] < e[2]

\* A list of chains in which each is one and no step is in two; with a step its
\* lineage child is in one, and where every step comes after those it boots
\* from, none starts with a lineage child.
ListOK(all) ==
  /\ all \in ChainLists
  /\ \A i \in 1..Len(all) : Len(all[i]) >= 1
  /\ \A i, j \in 1..Len(all) : \A k \in 1..Len(all[i]), l \in 1..Len(all[j]) :
       all[i][k] = all[j][l] => i = j /\ k = l
  /\ \A i \in 1..Len(all) : \A k \in 2..Len(all[i]) : Lineage(all[i][k - 1], all[i][k])
  /\ \A a \in Assigned(all), c \in Nodes : Lineage(a, c) => c \in Assigned(all)
  /\ ParentsFirst => \A i \in 1..Len(all) : \A m \in Nodes : ~Lineage(m, all[i][1])

\* What is in a list of chains.
LEMMA AssignedIs ==
  ASSUME NEW all \in ChainLists
  PROVE  /\ Len(all) \in Nat
         /\ \A i \in 1..Len(all) : all[i] \in Seq(Nodes) /\ Len(all[i]) \in Nat
         /\ \A i \in 1..Len(all) : \A k \in 1..Len(all[i]) : all[i][k] \in Nodes
         /\ \A a : a \in Assigned(all) <=> \E i \in 1..Len(all) : \E k \in 1..Len(all[i]) : all[i][k] = a
<1>1. Len(all) \in Nat /\ DOMAIN all = 1..Len(all)
  BY DEF ChainLists
<1>2. \A i \in 1..Len(all) : all[i] \in Seq(Nodes)
  BY <1>1, ElementOfSeq DEF ChainLists
<1>3. \A i \in 1..Len(all) : Len(all[i]) \in Nat /\ DOMAIN all[i] = 1..Len(all[i])
  BY <1>2
<1>4. \A i \in 1..Len(all) : \A k \in 1..Len(all[i]) : all[i][k] \in Nodes
  BY <1>2, ElementOfSeq
<1>5. \A i \in 1..Len(all) : ToSet(all[i]) = {all[i][k] : k \in 1..Len(all[i])}
  BY <1>3 DEF ToSet
<1>6. ASSUME NEW a PROVE a \in Assigned(all) <=> \E i \in 1..Len(all) : a \in ToSet(all[i])
  BY <1>1 DEF Assigned
<1>7. QED
  BY <1>1, <1>2, <1>3, <1>4, <1>5, <1>6

LEMMA GrownOK ==
  ASSUME EdgesOK, NEW n \in Nodes, NEW all, ListOK(all), \A m \in 1..(n - 1) : m \in Assigned(all)
  PROVE  ListOK(Grown(all, n)) /\ \A m \in 1..n : m \in Assigned(Grown(all, n))
<1>1. all \in ChainLists /\ n \in Nat /\ n >= 1
  BY SizeAssumption DEF ListOK, Nodes
<1>2. \A m \in 1..n : m \in 1..(n - 1) \/ m = n
  BY <1>1
<1>3. CASE n \in Assigned(all)
  BY <1>2, <1>3 DEF Grown
<1>4. CASE n \notin Assigned(all)
  <2> DEFINE A == Assigned(all)
             new == ChainFrom(n, A)
             L == Len(all)
             r == Append(all, new)
  <2>1. ChainOK(new, n, A) /\ Ended(new, A)
    BY <1>4, ChainIs
  <2>2. Grown(all, n) = r
    BY <1>4 DEF Grown
  <2> HIDE DEF A, new
  <2>3. new \in Seq(Nodes) /\ Len(new) \in Nat /\ Len(new) >= 1 /\ new[1] = n /\ 1 \in 1..Len(new)
    BY <2>1 DEF ChainOK
  <2>4. /\ r \in ChainLists /\ Len(r) = L + 1 /\ L \in Nat
        /\ \A i \in 1..L : r[i] = all[i]
        /\ r[L + 1] = new
    BY <1>1, <2>3 DEF ChainLists
  <2> HIDE DEF r, L
  <2>5. \A i \in 1..Len(r) : i \in 1..L \/ i = L + 1
    BY <2>4
  <2>6. (\A i \in 1..L : i \in 1..Len(r)) /\ L + 1 \in 1..Len(r)
    BY <2>4
  <2>7. \A a : a \in A <=> \E i \in 1..L : \E k \in 1..Len(all[i]) : all[i][k] = a
    BY <1>1, AssignedIs DEF A, L
  <2>8. \A a : a \in Assigned(r) <=> \E i \in 1..Len(r) : \E k \in 1..Len(r[i]) : r[i][k] = a
    BY <2>4, AssignedIs
  <2>9. \A a : a \in Assigned(r) <=> a \in A \/ \E k \in 1..Len(new) : new[k] = a
    <3>1. ASSUME NEW a PROVE a \in Assigned(r) => a \in A \/ \E k \in 1..Len(new) : new[k] = a
      BY <2>4, <2>5, <2>7, <2>8
    <3>2. ASSUME NEW a PROVE a \in A => a \in Assigned(r)
      BY <2>4, <2>6, <2>7, <2>8
    <3>3. ASSUME NEW k \in 1..Len(new) PROVE new[k] \in Assigned(r)
      BY <2>4, <2>6, <2>8
    <3>4. QED
      BY <3>1, <3>2, <3>3
  <2>10. \A i \in 1..Len(r) : Len(r[i]) >= 1
    BY <2>3, <2>4, <2>5 DEF ListOK, L
  <2>11. \A i, j \in 1..Len(r) : \A k \in 1..Len(r[i]), l \in 1..Len(r[j]) :
           r[i][k] = r[j][l] => i = j /\ k = l
    <3>1. ASSUME NEW i \in 1..L, NEW j \in 1..L, NEW k \in 1..Len(all[i]), NEW l \in 1..Len(all[j]), all[i][k] = all[j][l]
          PROVE  i = j /\ k = l
      BY <3>1 DEF ListOK, L
    <3>2. ASSUME NEW i \in 1..L, NEW k \in 1..Len(all[i]), NEW l \in 1..Len(new) PROVE all[i][k] # new[l]
      BY <2>1, <2>7 DEF ChainOK
    <3>3. ASSUME NEW k \in 1..Len(new), NEW l \in 1..Len(new), new[k] = new[l] PROVE k = l
      BY <2>1, <3>3 DEF ChainOK
    <3>4. ASSUME NEW i \in 1..Len(r), NEW j \in 1..Len(r), NEW k \in 1..Len(r[i]), NEW l \in 1..Len(r[j]),
                 r[i][k] = r[j][l]
          PROVE  i = j /\ k = l
      <4>1. CASE i \in 1..L /\ j \in 1..L
        BY <2>4, <3>1, <3>4, <4>1
      <4>2. CASE i \in 1..L /\ j = L + 1
        BY <2>4, <3>2, <3>4, <4>2
      <4>3. CASE i = L + 1 /\ j \in 1..L
        BY <2>4, <3>2, <3>4, <4>3
      <4>4. CASE i = L + 1 /\ j = L + 1
        BY <2>4, <3>3, <3>4, <4>4
      <4>5. QED
        BY <2>5, <4>1, <4>2, <4>3, <4>4
    <3>5. QED
      BY <3>4
  <2>12. \A i \in 1..Len(r) : \A k \in 2..Len(r[i]) : Lineage(r[i][k - 1], r[i][k])
    <3>1. \A i \in 1..L : \A k \in 2..Len(all[i]) : Lineage(all[i][k - 1], all[i][k])
      BY DEF ListOK, L
    <3>2. \A k \in 2..Len(new) : Lineage(new[k - 1], new[k])
      BY <2>1 DEF ChainOK
    <3>3. QED
      BY <2>4, <2>5, <3>1, <3>2
  <2>13. \A a \in Assigned(r), c \in Nodes : Lineage(a, c) => c \in Assigned(r)
    <3>1. ASSUME NEW a \in A, NEW c \in Nodes, Lineage(a, c) PROVE c \in A
      BY <3>1 DEF ListOK, A
    <3>2. ASSUME NEW k \in 1..Len(new), NEW c \in Nodes, Lineage(new[k], c) PROVE c \in Assigned(r)
      <4>1. CASE k = Len(new)
        <5>1. c \in A \/ c \in ToSet(new)
          BY <2>1, <3>2, <4>1 DEF Ended, Last
        <5>2. c \in ToSet(new) => \E l \in 1..Len(new) : new[l] = c
          BY <2>3 DEF ToSet
        <5>3. QED
          BY <2>9, <5>1, <5>2
      <4>2. CASE k # Len(new)
        <5>1. k + 1 \in 2..Len(new) /\ k + 1 \in 1..Len(new) /\ (k + 1) - 1 = k
          BY <2>3, <4>2
        <5>2. Lineage(new[k], new[k + 1])
          <6>1. Lineage(new[(k + 1) - 1], new[k + 1])
            BY <2>1, <5>1 DEF ChainOK
          <6>2. QED
            BY <5>1, <6>1
        <5>3. c = new[k + 1]
          BY <3>2, <5>2, OneLineage
        <5>4. QED
          BY <2>9, <5>1, <5>3
      <4>3. QED
        BY <4>1, <4>2
    <3>3. QED
      BY <2>9, <3>1, <3>2
  <2>14. ASSUME ParentsFirst PROVE \A i \in 1..Len(r) : \A m \in Nodes : ~Lineage(m, r[i][1])
    <3>1. ASSUME NEW m \in Nodes, Lineage(m, n) PROVE FALSE
      <4>1. <<m, n, "builds_in">> \in edges
        BY <3>1 DEF Lineage, EdgesInto
      <4>2. m < n
        BY <2>14, <4>1 DEF ParentsFirst
      <4>3. m \in 1..(n - 1)
        BY <1>1, <4>2, SizeAssumption DEF Nodes
      <4>4. m \in Assigned(all)
        BY <4>3
      <4>5. QED
        BY <1>4, <3>1, <4>4 DEF ListOK
    <3>2. \A i \in 1..L : \A m \in Nodes : ~Lineage(m, all[i][1])
      BY <2>14 DEF ListOK, L
    <3>3. QED
      BY <2>3, <2>4, <2>5, <3>1, <3>2
  <2>15. ListOK(r)
    BY <2>4, <2>10, <2>11, <2>12, <2>13, <2>14 DEF ListOK
  <2>16. \A m \in 1..n : m \in Assigned(r)
    BY <1>2, <2>3, <2>9 DEF A
  <2>17. QED
    BY <2>2, <2>15, <2>16
<1>5. QED
  BY <1>3, <1>4

LEMMA ChainInfoOK ==
  ASSUME EdgesOK
  PROVE  ListOK(ChainInfo) /\ \A n \in Nodes : n \in Assigned(ChainInfo)
<1>1. Size \in Nat /\ 0 \in 0..Size /\ Size \in 0..Size
  BY SizeAssumption
<1> DEFINE T == {n \in 0..Size : ListOK(Chained[n]) /\ \A m \in 1..n : m \in Assigned(Chained[n])}
<1>2. 0 \in T
  <2> DEFINE none == <<>>
  <2>1. none \in ChainLists /\ Len(none) = 0
    BY DEF ChainLists
  <2> HIDE DEF none
  <2>2. \A a : a \notin Assigned(none)
    BY <2>1, AssignedIs
  <2>3. ListOK(none)
    BY <2>1, <2>2 DEF ListOK
  <2>4. Chained[0] = none
    BY ChainedIs DEF none
  <2>5. QED
    BY <1>1, <2>3, <2>4
<1>3. ASSUME NEW n \in 1..Size, n - 1 \in T PROVE n \in T
  <2>1. n \in 0..Size /\ n \in Nodes
    BY <1>1 DEF Nodes
  <2>2. ListOK(Chained[n - 1]) /\ \A m \in 1..(n - 1) : m \in Assigned(Chained[n - 1])
    BY <1>3
  <2>3. Chained[n] = Grown(Chained[n - 1], n)
    BY ChainedIs
  <2> HIDE DEF T
  <2>4. ListOK(Chained[n]) /\ \A m \in 1..n : m \in Assigned(Chained[n])
    BY <2>1, <2>2, <2>3, GrownOK
  <2>5. QED
    BY <2>1, <2>4 DEF T
<1> HIDE DEF T
<1>4. Size \in T
  BY <1>1, <1>2, <1>3, UpTo
<1>5. QED
  BY <1>4 DEF T, ChainInfo, Nodes

\* Where no chain starts with a lineage child, there are as many as steps that
\* are none's.
LEMMA CountOK ==
  ASSUME NEW all, ListOK(all), \A n \in Nodes : n \in Assigned(all),
         \A i \in 1..Len(all) : \A m \in Nodes : ~Lineage(m, all[i][1])
  PROVE  Len(all) = Size - Cardinality({c \in Nodes : \E n \in Nodes : Lineage(n, c)})
<1> DEFINE Cont == {c \in Nodes : \E n \in Nodes : Lineage(n, c)}
           L == Len(all)
           first == [i \in 1..L |-> all[i][1]]
<1>1. Size \in Nat /\ IsFiniteSet(Nodes) /\ Cardinality(Nodes) = Size
  BY SizeAssumption, FS_Interval DEF Nodes
<1>2. /\ L \in Nat
      /\ \A i \in 1..L : all[i] \in Seq(Nodes) /\ Len(all[i]) \in Nat
      /\ \A i \in 1..L : \A k \in 1..Len(all[i]) : all[i][k] \in Nodes
      /\ \A a : a \in Assigned(all) <=> \E i \in 1..L : \E k \in 1..Len(all[i]) : all[i][k] = a
  BY AssignedIs DEF ListOK
<1>3. \A i \in 1..L : 1 \in 1..Len(all[i])
  BY <1>2 DEF ListOK
<1>4. first \in [1..L -> Nodes \ Cont]
  BY <1>2, <1>3
<1>5. ASSUME NEW i \in 1..L, NEW j \in 1..L, first[i] = first[j] PROVE i = j
  BY <1>3, <1>5 DEF ListOK
<1>6. ASSUME NEW c \in Nodes \ Cont PROVE \E i \in 1..L : first[i] = c
  <2>1. PICK i \in 1..L : \E k \in 1..Len(all[i]) : all[i][k] = c
    BY <1>2
  <2>2. PICK k \in 1..Len(all[i]) : all[i][k] = c
    BY <2>1
  <2>3. CASE k = 1
    BY <2>2, <2>3
  <2>4. CASE k # 1
    <3>1. k \in 2..Len(all[i]) /\ k - 1 \in 1..Len(all[i])
      BY <1>2, <2>4
    <3>2. Lineage(all[i][k - 1], c)
      BY <2>2, <3>1 DEF ListOK
    <3>3. all[i][k - 1] \in Nodes
      BY <1>2, <3>1
    <3>4. QED
      BY <3>2, <3>3
  <2>5. QED
    BY <2>3, <2>4
<1> HIDE DEF first, Cont
<1>7. ExistsBijection(1..L, Nodes \ Cont)
  <2>1. first \in Bijection(1..L, Nodes \ Cont)
    BY <1>4, <1>5, <1>6 DEF Bijection, Injection, Surjection, IsInjective
  <2>2. QED
    BY <2>1 DEF ExistsBijection
<1>8. IsFiniteSet(1..L) /\ Cardinality(1..L) = L
  <2>1. L \in Nat /\ L \in Int /\ 1 \in Int
    BY <1>2
  <2> HIDE DEF L
  <2>2. IsFiniteSet(1..L) /\ Cardinality(1..L) = IF 1 > L THEN 0 ELSE L - 1 + 1
    BY <2>1, FS_Interval
  <2>3. QED
    BY <2>1, <2>2
<1>9. Cardinality(Nodes \ Cont) = L
  BY <1>7, <1>8, FS_Bijection
<1>10. Cont \in SUBSET Nodes
  BY DEF Cont
<1>11. IsFiniteSet(Cont) /\ Cardinality(Cont) \in Nat /\ Nodes \cap Cont = Cont
  BY <1>1, <1>10, FS_Subset, FS_CardinalityType
<1>12. Cardinality(Nodes \ Cont) = Cardinality(Nodes) - Cardinality(Cont)
  BY <1>1, <1>11, FS_Difference
<1>13. QED
  BY <1>1, <1>9, <1>12 DEF Cont

\* The chains that number the steps of a plan are right whatever its graph is:
\* compute_chain_info puts each step in one, follows one parent and one child
\* only, and starts no more of them than it must.
THEOREM ChainsHold == ChainsSpec => []ChainsAreRight
<1>1. ChainsInit => EdgesOK
  BY FS_EmptySet DEF ChainsInit, EdgesOK
<1>2. EdgesOK => ChainsAreRight
  <2> SUFFICES ASSUME EdgesOK PROVE ChainsAreRight
    OBVIOUS
  <2> DEFINE all == ChainInfo
  <2>1. ListOK(all) /\ \A n \in Nodes : n \in Assigned(all)
    BY ChainInfoOK
  <2>2. /\ Len(all) \in Nat /\ DOMAIN all = 1..Len(all)
        /\ \A i \in 1..Len(all) : DOMAIN all[i] = 1..Len(all[i])
        /\ \A a \in Assigned(all) : a \in Nodes
    <3>1. all \in ChainLists
      BY <2>1 DEF ListOK
    <3>2. DOMAIN all = 1..Len(all)
      BY <3>1 DEF ChainLists
    <3>3. QED
      BY <3>1, <3>2, AssignedIs
  <2> HIDE DEF all
  <2>3. Nodes = Assigned(all)
    BY <2>1, <2>2
  <2>4. ASSUME NEW i \in DOMAIN all, NEW j \in DOMAIN all, NEW k \in DOMAIN all[i], NEW l \in DOMAIN all[j],
               all[i][k] = all[j][l]
        PROVE  i = j /\ k = l
    BY <2>1, <2>2, <2>4 DEF ListOK
  <2>5. ASSUME NEW i \in DOMAIN all, NEW k \in 2..Len(all[i]) PROVE Lineage(all[i][k - 1], all[i][k])
    BY <2>1, <2>2 DEF ListOK
  <2>6. ChainsAreLineages
    BY <2>3, <2>4, <2>5 DEF ChainsAreLineages, all
  <2>7. ASSUME ParentsFirst PROVE ChainCount = Size - Cardinality({c \in Nodes : \E n \in Nodes : Lineage(n, c)})
    <3>1. \A i \in 1..Len(all) : \A m \in Nodes : ~Lineage(m, all[i][1])
      BY <2>1, <2>7 DEF ListOK
    <3>2. Len(all) = Size - Cardinality({c \in Nodes : \E n \in Nodes : Lineage(n, c)})
      BY <2>1, <3>1, CountOK
    <3>3. QED
      BY <3>2 DEF ChainCount, all
  <2>8. ChainsAreWhole
    BY <2>7 DEF ChainsAreWhole, ParentsFirst
  <2>9. QED
    BY <2>6, <2>8 DEF ChainsAreRight
<1>3. QED
  BY <1>1, <1>2, EdgesAdded, PTL DEF ChainsSpec

-----------------------------------------------------------------------------
(* How a name and a duration are laid out.                                  *)

Texts == Seq([w : Nat, b : Nat, blank : BOOLEAN])
UsedBy(u, text, measure) ==
  u = [k \in 0..Len(text) |-> IF k = 0 THEN 0 ELSE u[k - 1] + CostOf(text[k], measure)]

LEMMA FunIsSeq ==
  ASSUME NEW G, NEW n \in Nat, NEW r \in [1..n -> G]
  PROVE  r \in Seq(G) /\ Len(r) = n /\ DOMAIN r = 1..n
OBVIOUS

LEMMA PartIs ==
  ASSUME NEW G, NEW q \in Seq(G), NEW a \in 0..Len(q), NEW b \in 0..Len(q), a <= b
  PROVE  /\ SubSeq(q, a + 1, b) \in Seq(G) /\ Len(SubSeq(q, a + 1, b)) = b - a
         /\ \A k \in 1..(b - a) : SubSeq(q, a + 1, b)[k] = q[a + k]
OBVIOUS

LEMMA GraphemeCosts ==
  ASSUME NEW text \in Texts, NEW measure
  PROVE  /\ Len(text) \in Nat /\ DOMAIN text = 1..Len(text)
         /\ \A k \in 1..Len(text) : CostOf(text[k], measure) \in Nat
<1>1. Len(text) \in Nat /\ DOMAIN text = 1..Len(text)
  BY DEF Texts
<1>2. \A k \in 1..Len(text) : text[k] \in [w : Nat, b : Nat, blank : BOOLEAN]
  BY ElementOfSeq DEF Texts
<1>3. QED
  BY <1>1, <1>2 DEF CostOf

LEMMA UsedIs ==
  ASSUME NEW text \in Texts, NEW measure
  PROVE  /\ Used(text, measure) \in [0..Len(text) -> Nat]
         /\ Used(text, measure)[0] = 0
         /\ \A k \in 1..Len(text) : Used(text, measure)[k] = Used(text, measure)[k - 1] + CostOf(text[k], measure)
<1> DEFINE L == Len(text)
           cost(k) == CostOf(text[k], measure)
           F == [k \in 1..L |-> [n \in Nat |-> n + cost(k)]]
           u == Used(text, measure)
<1>1. L \in Nat /\ \A k \in 1..L : cost(k) \in Nat
  BY GraphemeCosts
<1> HIDE DEF cost, L
<1>2. F \in [1..L -> [Nat -> Nat]] /\ 0 \in Nat
  BY <1>1
<1>3. PICK f : Recurs(f, L, Nat, 0, F)
  <2> HIDE DEF F
  <2>1. QED
    BY <1>1, <1>2, Recursion
<1>4. UsedBy(f, text, measure)
  <2>1. \A k \in 1..L : k - 1 \in 0..L
    BY <1>1
  <2>2. \A k \in 1..L : f[k] = f[k - 1] + cost(k)
    BY <1>3, <2>1 DEF Recurs
  <2>3. \A k \in 0..L : k = 0 \/ k \in 1..L
    BY <1>1
  <2>4. \A k \in 0..L : f[k] = IF k = 0 THEN 0 ELSE f[k - 1] + cost(k)
    BY <1>3, <2>2, <2>3 DEF Recurs
  <2>5. f = [k \in 0..L |-> f[k]]
    BY <1>3 DEF Recurs
  <2>6. QED
    BY <2>4, <2>5 DEF UsedBy, L, cost
<1>5. u = CHOOSE g : UsedBy(g, text, measure)
  BY DEF Used, UsedBy
<1>6. UsedBy(u, text, measure)
  <2> HIDE DEF u
  <2>1. QED
    BY <1>4, <1>5
<1> HIDE DEF u
<1>7. u = [k \in 0..L |-> IF k = 0 THEN 0 ELSE u[k - 1] + cost(k)]
  BY <1>6 DEF UsedBy, L, cost
<1>8. u[0] = 0 /\ \A k \in 1..L : u[k] = u[k - 1] + cost(k)
  <2>1. \A k \in 0..L : u[k] = IF k = 0 THEN 0 ELSE u[k - 1] + cost(k)
    BY <1>7
  <2>2. 0 \in 0..L /\ \A k \in 1..L : k \in 0..L /\ k # 0
    BY <1>1
  <2>3. QED
    BY <2>1, <2>2
<1>9. \A k \in 0..L : u[k] \in Nat
  <2> DEFINE T == {k \in 0..L : u[k] \in Nat}
  <2>1. 0 \in T
    BY <1>1, <1>8
  <2>2. ASSUME NEW k \in 1..L, k - 1 \in T PROVE k \in T
    BY <1>1, <1>8, <2>2
  <2> HIDE DEF T
  <2>3. \A k \in 0..L : k \in T
    BY <1>1, <2>1, <2>2, UpTo
  <2>4. QED
    BY <2>3 DEF T
<1>10. u \in [0..L -> Nat]
  BY <1>7, <1>9
<1>11. QED
  BY <1>8, <1>10 DEF L, cost, u

LEMMA UsedGrows ==
  ASSUME NEW text \in Texts, NEW measure, NEW i \in 0..Len(text), NEW j \in 0..Len(text), i <= j
  PROVE  Used(text, measure)[i] <= Used(text, measure)[j]
<1> DEFINE L == Len(text)
           u == Used(text, measure)
           T == {k \in 0..L : i <= k => u[i] <= u[k]}
<1>1. L \in Nat /\ \A k \in 1..L : CostOf(text[k], measure) \in Nat
  BY GraphemeCosts
<1>2. /\ \A k \in 0..L : u[k] \in Nat
      /\ \A k \in 1..L : u[k] = u[k - 1] + CostOf(text[k], measure)
  BY UsedIs
<1> HIDE DEF u
<1>3. 0 \in T
  BY <1>1, <1>2
<1>4. ASSUME NEW k \in 1..L, k - 1 \in T PROVE k \in T
  <2>1. k \in 0..L /\ k - 1 \in 0..L /\ k \in Nat
    BY <1>1
  <2>2. i <= k - 1 \/ i = k \/ i > k
    BY <2>1
  <2>3. i <= k - 1 => u[i] <= u[k - 1]
    BY <1>4
  <2>4. u[k - 1] <= u[k]
    BY <1>1, <1>2, <2>1
  <2>5. u[i] <= u[k - 1] => u[i] <= u[k]
    BY <1>2, <2>1, <2>4
  <2>6. u[i] <= u[i]
    BY <1>2
  <2>7. i <= k => u[i] <= u[k]
    BY <2>1, <2>2, <2>3, <2>5, <2>6
  <2>8. QED
    BY <2>1, <2>7
<1> HIDE DEF T
<1>5. j \in T
  BY <1>1, <1>3, <1>4, UpTo
<1>6. QED
  BY <1>5 DEF T, u

\* Where two texts run alike they take the same.
RunAlike(s, a, t, b, n) == a + n <= Len(s) /\ b + n <= Len(t) /\ \A k \in 1..n : s[a + k] = t[b + k]
TakeAlike(s, a, t, b, n, measure) ==
  \A k \in 0..n : Used(s, measure)[a + k] - Used(s, measure)[a] = Used(t, measure)[b + k] - Used(t, measure)[b]

LEMMA UsedAlike ==
  ASSUME NEW s \in Texts, NEW t \in Texts, NEW measure, NEW a \in Nat, NEW b \in Nat, NEW n \in Nat,
         RunAlike(s, a, t, b, n)
  PROVE  TakeAlike(s, a, t, b, n, measure)
<1> DEFINE u == Used(s, measure)
           v == Used(t, measure)
           T == {k \in 0..n : u[a + k] - u[a] = v[b + k] - v[b]}
<1>1. /\ Len(s) \in Nat /\ Len(t) \in Nat /\ a + n <= Len(s) /\ b + n <= Len(t)
      /\ \A k \in 1..n : s[a + k] = t[b + k]
  BY GraphemeCosts DEF RunAlike
<1>2. /\ \A k \in 0..Len(s) : u[k] \in Nat
      /\ \A k \in 1..Len(s) : u[k] = u[k - 1] + CostOf(s[k], measure)
  BY UsedIs
<1>3. /\ \A k \in 0..Len(t) : v[k] \in Nat
      /\ \A k \in 1..Len(t) : v[k] = v[k - 1] + CostOf(t[k], measure)
  BY UsedIs
<1> HIDE DEF u, v
<1>4. 0 \in T
  <2>1. a + 0 = a /\ b + 0 = b /\ a \in 0..Len(s) /\ b \in 0..Len(t) /\ 0 \in 0..n
    BY <1>1
  <2>2. u[a] - u[a] = v[b] - v[b]
    BY <1>2, <1>3, <2>1
  <2>3. QED
    BY <2>1, <2>2
<1>5. ASSUME NEW k \in 1..n, k - 1 \in T PROVE k \in T
  <2>1. /\ k \in 0..n /\ a + k \in 1..Len(s) /\ b + k \in 1..Len(t)
        /\ (a + k) - 1 = a + (k - 1) /\ (b + k) - 1 = b + (k - 1)
        /\ a + (k - 1) \in 0..Len(s) /\ b + (k - 1) \in 0..Len(t) /\ a \in 0..Len(s) /\ b \in 0..Len(t)
    BY <1>1
  <2> DEFINE c == CostOf(s[a + k], measure)
             x == u[a + (k - 1)]
             z == v[b + (k - 1)]
  <2>2. u[a + k] = x + c
    BY <1>2, <2>1
  <2>3. v[b + k] = z + c
    <3>1. s[a + k] = t[b + k]
      BY <1>1
    <3>2. QED
      BY <1>3, <2>1, <3>1
  <2>4. c \in Nat
    BY <2>1, GraphemeCosts
  <2>5. x - u[a] = z - v[b]
    BY <1>5
  <2>6. x \in Nat /\ u[a] \in Nat /\ z \in Nat /\ v[b] \in Nat
    BY <1>2, <1>3, <2>1
  <2> HIDE DEF c, x, z
  <2>7. u[a + k] - u[a] = v[b + k] - v[b]
    BY <2>2, <2>3, <2>4, <2>5, <2>6
  <2>8. QED
    BY <2>1, <2>7
<1> HIDE DEF T
<1>6. \A k \in 0..n : k \in T
  BY <1>4, <1>5, UpTo
<1>7. QED
  BY <1>6 DEF TakeAlike, T, u, v

LEMMA FittingIs ==
  ASSUME NEW text \in Texts, NEW measure, NEW max \in Nat
  PROVE  /\ Fitting(text, max, measure) \in 0..Len(text)
         /\ Used(text, measure)[Fitting(text, max, measure)] <= max
         /\ Fitting(text, max, measure) < Len(text) =>
              Used(text, measure)[Fitting(text, max, measure) + 1] > max
<1> DEFINE L == Len(text)
           u == Used(text, measure)
           Fit(n) == (\A k \in 1..n : u[k] <= max) /\ (n < L => u[n + 1] > max)
           T == {n \in 0..L : n < L => u[n + 1] > max}
<1>1. L \in Nat /\ u[0] = 0 /\ \A k \in 0..L : u[k] \in Nat
  BY UsedIs, GraphemeCosts
<1> HIDE DEF u, L
<1>2. PICK n \in T : \A m \in T : n <= m
  <2>1. L \in T /\ T \in SUBSET Nat
    BY <1>1
  <2> HIDE DEF T
  <2>2. QED
    BY <2>1, Least
<1>3. ASSUME NEW k \in 1..n PROVE u[k] <= max
  <2>1. n \in 0..L
    BY <1>2
  <2>2. k - 1 \in 0..L /\ k - 1 < n /\ k - 1 < L /\ (k - 1) + 1 = k /\ k \in 0..L
    BY <1>1, <2>1
  <2>3. k - 1 \notin T
    BY <1>2, <2>2
  <2>4. ~(u[k] > max)
    BY <2>2, <2>3
  <2>5. QED
    BY <1>1, <2>2, <2>4
<1>4. n \in 0..L /\ Fit(n)
  BY <1>2, <1>3
<1>5. Fitting(text, max, measure) = CHOOSE m \in 0..L : Fit(m)
  BY DEF Fitting, u, L
<1> DEFINE fit == Fitting(text, max, measure)
<1>6. fit \in 0..L /\ Fit(fit)
  <2> HIDE DEF Fit, fit
  <2>1. fit = CHOOSE m \in 0..L : Fit(m)
    BY <1>5 DEF fit
  <2>2. QED
    BY <1>4, <2>1
<1> HIDE DEF fit
<1>7. u[fit] <= max
  <2>1. fit = 0 \/ fit \in 1..fit
    BY <1>1, <1>6
  <2>2. QED
    BY <1>1, <1>6, <2>1
<1>8. QED
  BY <1>6, <1>7 DEF fit, u, L

\* Reversed, a text takes at its beginning what it took at its end.
LEMMA UsedReversed ==
  ASSUME NEW text \in Texts, NEW measure
  PROVE  /\ Reverse(text) \in Texts /\ Len(Reverse(text)) = Len(text)
         /\ \A k \in 0..Len(text) :
              Used(Reverse(text), measure)[k]
                = Used(text, measure)[Len(text)] - Used(text, measure)[Len(text) - k]
<1> DEFINE L == Len(text)
           r == Reverse(text)
           u == Used(text, measure)
           v == Used(r, measure)
           T == {k \in 0..L : v[k] = u[L] - u[L - k]}
<1>1. L \in Nat /\ \A k \in 1..L : CostOf(text[k], measure) \in Nat
  BY GraphemeCosts
<1>2. r = [i \in 1..L |-> text[(L - i) + 1]]
  BY DEF Reverse
<1>3. r \in Texts /\ Len(r) = L
  <2>1. \A i \in 1..L : (L - i) + 1 \in 1..L
    BY <1>1
  <2>2. \A i \in 1..L : text[i] \in [w : Nat, b : Nat, blank : BOOLEAN]
    BY ElementOfSeq DEF Texts
  <2> HIDE DEF L, r
  <2>3. r \in [1..L -> [w : Nat, b : Nat, blank : BOOLEAN]]
    BY <1>2, <2>1, <2>2
  <2>4. QED
    BY <1>1, <2>3, FunIsSeq DEF Texts
<1> HIDE DEF r
<1>4. \A k \in 0..L : u[k] \in Nat
  BY UsedIs
<1>5. \A k \in 1..L : u[k] = u[k - 1] + CostOf(text[k], measure)
  BY UsedIs
<1>6. v[0] = 0 /\ \A k \in 0..L : v[k] \in Nat
  BY <1>3, UsedIs
<1>7. \A k \in 1..L : v[k] = v[k - 1] + CostOf(r[k], measure)
  BY <1>3, UsedIs
<1> HIDE DEF u, v, L
<1>8. 0 \in T
  BY <1>1, <1>4, <1>6
<1>9. ASSUME NEW k \in 1..L, k - 1 \in T PROVE k \in T
  <2> DEFINE i == (L - k) + 1
  <2>1. /\ i \in 1..L /\ i - 1 = L - k /\ L - (k - 1) = i /\ L - k \in 0..L
        /\ k \in 0..L /\ k - 1 \in 0..L /\ i \in 0..L /\ L \in 0..L
    BY <1>1
  <2>2. r[k] = text[i]
    BY <1>2
  <2> HIDE DEF i
  <2>3. v[k - 1] = u[L] - u[i]
    BY <1>9, <2>1
  <2>4. u[i] = u[L - k] + CostOf(text[i], measure)
    BY <1>5, <2>1
  <2>5. v[k] = v[k - 1] + CostOf(text[i], measure)
    BY <1>7, <2>2
  <2>6. \A x, y, z, c \in Nat : z = x - (y + c) => z + c = x - y
    OBVIOUS
  <2>7. v[k] = u[L] - u[L - k]
    BY <1>1, <1>4, <1>6, <2>1, <2>3, <2>4, <2>5, <2>6
  <2>8. QED
    BY <2>1, <2>7
<1> HIDE DEF T
<1>10. \A k \in 0..L : k \in T
  BY <1>1, <1>8, <1>9, UpTo
<1>11. QED
  BY <1>3, <1>10 DEF T, L, u, v, r

LEMMA SuffixIs ==
  ASSUME NEW text \in Texts, NEW measure, NEW max \in Nat
  PROVE  LET u == Used(text, measure)
             L == Len(text)
             n == SuffixBoundary(text, max, measure)
         IN /\ n \in 0..L
            /\ u[L] - u[n] <= max
            /\ n > 0 => u[L] - u[n - 1] > max
<1> DEFINE L == Len(text)
           r == Reverse(text)
           u == Used(text, measure)
           v == Used(r, measure)
           f == Fitting(r, max, measure)
<1>1. r \in Texts /\ Len(r) = L /\ \A k \in 0..L : v[k] = u[L] - u[L - k]
  BY UsedReversed
<1>2. L \in Nat
  BY GraphemeCosts
<1>3. f \in 0..L /\ v[f] <= max /\ (f < L => v[f + 1] > max)
  <2> HIDE DEF L, r
  <2>1. QED
    BY <1>1, FittingIs
<1>4. SuffixBoundary(text, max, measure) = L - f
  BY DEF SuffixBoundary
<1> HIDE DEF L, u, v, f
<1>5. L - f \in 0..L /\ u[L] - u[L - f] <= max
  BY <1>1, <1>2, <1>3
<1>6. ASSUME L - f > 0 PROVE u[L] - u[(L - f) - 1] > max
  <2>1. f < L /\ f + 1 \in 0..L /\ L - (f + 1) = (L - f) - 1
    BY <1>2, <1>3, <1>6
  <2>2. v[f + 1] > max /\ v[f + 1] = u[L] - u[L - (f + 1)]
    BY <1>1, <1>3, <2>1
  <2>3. QED
    BY <2>1, <2>2
<1>7. QED
  BY <1>4, <1>5, <1>6 DEF L, u

\* What a part of a text takes, and two one after the other.
LEMMA CostOfPart ==
  ASSUME NEW text \in Texts, NEW measure, NEW a \in 0..Len(text), NEW b \in 0..Len(text), a <= b
  PROVE  /\ SubSeq(text, a + 1, b) \in Texts /\ Len(SubSeq(text, a + 1, b)) = b - a
         /\ Cost(SubSeq(text, a + 1, b), measure) = Used(text, measure)[b] - Used(text, measure)[a]
<1> DEFINE s == SubSeq(text, a + 1, b)
<1>1. Len(text) \in Nat /\ a \in Nat /\ b \in Nat
  BY GraphemeCosts
<1>2. /\ s \in Texts /\ Len(s) = b - a
      /\ \A k \in 1..(b - a) : s[k] = text[a + k]
  BY PartIs DEF Texts
<1> HIDE DEF s
<1>3. b - a \in Nat /\ 0 + (b - a) <= Len(s) /\ a + (b - a) <= Len(text) /\ b - a \in 0..(b - a)
      /\ 0 + (b - a) = b - a /\ a + (b - a) = b /\ 0 \in Nat
  BY <1>1, <1>2
<1>4. RunAlike(s, 0, text, a, b - a)
  BY <1>1, <1>2, <1>3 DEF RunAlike
<1>5. TakeAlike(s, 0, text, a, b - a, measure)
  BY <1>1, <1>2, <1>3, <1>4, UsedAlike
<1>6. Used(s, measure)[b - a] - Used(s, measure)[0] = Used(text, measure)[b] - Used(text, measure)[a]
  <2>1. Used(s, measure)[0 + (b - a)] - Used(s, measure)[0] = Used(text, measure)[a + (b - a)] - Used(text, measure)[a]
    BY <1>3, <1>5 DEF TakeAlike
  <2>2. QED
    BY <1>3, <2>1
<1>7. Used(s, measure)[0] = 0 /\ Used(s, measure)[b - a] \in Nat
  BY <1>2, <1>3, UsedIs
<1>8. Cost(s, measure) = Used(text, measure)[b] - Used(text, measure)[a]
  BY <1>2, <1>6, <1>7 DEF Cost
<1>9. QED
  BY <1>2, <1>8 DEF s

LEMMA CostOfJoin ==
  ASSUME NEW s \in Texts, NEW t \in Texts, NEW measure
  PROVE  /\ s \o t \in Texts /\ Len(s \o t) = Len(s) + Len(t)
         /\ Cost(s \o t, measure) = Cost(s, measure) + Cost(t, measure)
         /\ Cost(s, measure) \in Nat /\ Cost(t, measure) \in Nat
<1> DEFINE r == s \o t
           m == Len(s)
           n == Len(t)
<1>1. m \in Nat /\ n \in Nat
  BY GraphemeCosts
<1>2. r \in Texts /\ Len(r) = m + n
  BY DEF Texts
<1>3. \A k \in 1..m : r[k] = s[k]
  BY DEF Texts
<1>4. \A k \in 1..n : r[m + k] = t[k]
  BY DEF Texts
<1> HIDE DEF r, m, n
<1>5. /\ Used(s, measure)[0] = 0 /\ Used(s, measure)[m] \in Nat
      /\ Used(t, measure)[0] = 0 /\ Used(t, measure)[n] \in Nat
  BY <1>1, UsedIs DEF m, n
<1>6. Used(r, measure)[0] = 0 /\ Used(r, measure)[m] \in Nat /\ Used(r, measure)[m + n] \in Nat
  <2>1. 0 \in 0..(m + n) /\ m \in 0..(m + n) /\ m + n \in 0..(m + n)
    BY <1>1
  <2>2. QED
    BY <1>2, <2>1, UsedIs
<1>7. Used(r, measure)[m] = Used(s, measure)[m]
  <2>1. \A k \in 1..m : r[0 + k] = s[0 + k]
    BY <1>1, <1>3
  <2>2. 0 \in Nat /\ 0 + m <= Len(r) /\ 0 + m <= Len(s) /\ m \in 0..m /\ 0 + m = m
    BY <1>1, <1>2 DEF m
  <2>3. RunAlike(r, 0, s, 0, m)
    BY <2>1, <2>2 DEF RunAlike
  <2>4. TakeAlike(r, 0, s, 0, m, measure)
    BY <1>1, <1>2, <2>2, <2>3, UsedAlike
  <2>6. Used(r, measure)[0 + m] - Used(r, measure)[0] = Used(s, measure)[0 + m] - Used(s, measure)[0]
    BY <2>2, <2>4 DEF TakeAlike
  <2>5. QED
    BY <1>5, <1>6, <2>2, <2>6
<1>8. Used(r, measure)[m + n] - Used(r, measure)[m] = Used(t, measure)[n]
  <2>1. \A k \in 1..n : r[m + k] = t[0 + k]
    BY <1>1, <1>4
  <2>2. 0 \in Nat /\ m + n <= Len(r) /\ 0 + n <= Len(t) /\ n \in 0..n /\ 0 + n = n /\ m + 0 = m
    BY <1>1, <1>2 DEF n
  <2>3. RunAlike(r, m, t, 0, n)
    BY <2>1, <2>2 DEF RunAlike
  <2>4. TakeAlike(r, m, t, 0, n, measure)
    BY <1>1, <1>2, <2>2, <2>3, UsedAlike
  <2>6. Used(r, measure)[m + n] - Used(r, measure)[m] = Used(t, measure)[0 + n] - Used(t, measure)[0]
    BY <2>2, <2>4 DEF TakeAlike
  <2>5. QED
    BY <1>5, <1>6, <2>2, <2>6
<1>9. Cost(r, measure) = Used(r, measure)[m + n]
  BY <1>2 DEF Cost
<1>10. Cost(s, measure) = Used(s, measure)[m] /\ Cost(t, measure) = Used(t, measure)[n]
  BY DEF Cost, m, n
<1>11. QED
  BY <1>2, <1>5, <1>6, <1>7, <1>8, <1>9, <1>10 DEF r, m, n

\* The ways a cut comes out: the whole text; a bare end or beginning, where the
\* marker has no room; and the marker behind, before or between what is kept.
CutShape(e, text) ==
  /\ e \in [spliced : BOOLEAN, from : 0..Len(text), head : 0..Len(text), tail : 0..Len(text)]
  /\ e.from <= e.head /\ (e.spliced => e.from = 0 /\ e.head <= e.tail)
WholeCut(e, text, u, amount) == ~e.spliced /\ e.from = 0 /\ e.head = Len(text) /\ u[Len(text)] <= amount
EndCut(e, text, u, amount) ==
  /\ ~e.spliced /\ e.head = Len(text) /\ u[Len(text)] - u[e.from] <= amount
  /\ e.from > 0 => u[Len(text)] - u[e.from - 1] > amount
BeginCut(e, text, u, amount) ==
  /\ ~e.spliced /\ e.from = 0 /\ u[e.head] <= amount
  /\ e.head < Len(text) => u[e.head + 1] > amount
MarkedEnd(e, text, u, content) ==
  /\ e.spliced /\ e.tail = Len(text) /\ u[e.head] <= content
  /\ e.head < Len(text) => u[e.head + 1] > content
MarkedStart(e, text, u, content) ==
  /\ e.spliced /\ e.head = 0 /\ u[Len(text)] - u[e.tail] <= content
  /\ e.tail > 0 => u[Len(text)] - u[e.tail - 1] > content
MarkedMiddle(e, text, u, content) ==
  /\ e.spliced /\ u[e.head] <= (content + 1) \div 2 /\ u[Len(text)] - u[e.tail] <= content \div 2
  /\ e.head < e.tail => /\ u[e.head + 1] > (content + 1) \div 2
                        /\ u[Len(text)] - u[e.tail - 1] > content \div 2

CutCase(e, text, measure, amount, side, ind) ==
  LET u    == Used(text, measure)
      room == Cost(ind, measure)
  IN \/ WholeCut(e, text, u, amount)
     \/ /\ u[Len(text)] > amount /\ amount < room
        /\ \/ side = "start" /\ EndCut(e, text, u, amount)
           \/ side # "start" /\ BeginCut(e, text, u, amount)
     \/ /\ u[Len(text)] > amount /\ room <= amount
        /\ \/ side = "end" /\ MarkedEnd(e, text, u, amount - room)
           \/ side = "start" /\ MarkedStart(e, text, u, amount - room)
           \/ side = "middle" /\ MarkedMiddle(e, text, u, amount - room)

LEMMA CostIs ==
  ASSUME NEW text \in Texts, NEW measure
  PROVE  /\ Cost(text, measure) \in Nat /\ Cost(text, measure) = Used(text, measure)[Len(text)]
         /\ Len(text) \in Nat
         /\ \A k \in 0..Len(text) : Used(text, measure)[k] \in Nat
         /\ Used(text, measure)[0] = 0
<1>1. Len(text) \in Nat /\ Len(text) \in 0..Len(text)
  BY GraphemeCosts
<1>2. QED
  BY <1>1, UsedIs DEF Cost

LEMMA CutIs ==
  ASSUME NEW text \in Texts, NEW measure, NEW amount \in Nat, NEW side \in Sides, NEW ind \in Texts
  PROVE  LET e == Ellipsize(text, measure, amount, side, ind)
         IN CutShape(e, text) /\ CutCase(e, text, measure, amount, side, ind)
<1> DEFINE e == Ellipsize(text, measure, amount, side, ind)
           u == Used(text, measure)
           L == Len(text)
           room == Cost(ind, measure)
           prefix(max) == PrefixBoundary(text, max, measure)
           suffix(max) == SuffixBoundary(text, max, measure)
<1>1. L \in Nat /\ u[0] = 0 /\ (\A k \in 0..L : u[k] \in Nat) /\ room \in Nat /\ Cost(text, measure) = u[L]
  BY CostIs
<1>2. \A max \in Nat : prefix(max) \in 0..L /\ u[prefix(max)] <= max
  BY FittingIs DEF PrefixBoundary
<1>3. \A max \in Nat : prefix(max) < L => u[prefix(max) + 1] > max
  BY FittingIs DEF PrefixBoundary
<1>4. \A max \in Nat : suffix(max) \in 0..L /\ u[L] - u[suffix(max)] <= max
  BY SuffixIs
<1>5. \A max \in Nat : suffix(max) > 0 => u[L] - u[suffix(max) - 1] > max
  BY SuffixIs
<1>6. \A i, j \in 0..L : i <= j => u[i] <= u[j]
  BY UsedGrows
<1> HIDE DEF u, L, room, prefix, suffix
<1>7. CASE u[L] <= amount
  <2>1. e = Contiguous(0, L)
    BY <1>1, <1>7 DEF Ellipsize, L, room
  <2>2. QED
    BY <1>1, <1>7, <2>1 DEF Contiguous, CutShape, CutCase, WholeCut, L, u
<1>8. CASE u[L] > amount /\ amount < room
  <2>1. CASE side = "start"
    <3> DEFINE n == suffix(amount)
    <3>1. e = Contiguous(n, L)
      BY <1>1, <1>8, <2>1 DEF Ellipsize, L, room, suffix
    <3>2. n \in 0..L /\ u[L] - u[n] <= amount /\ (n > 0 => u[L] - u[n - 1] > amount)
      BY <1>4, <1>5
    <3> HIDE DEF n, e
    <3>3. e.spliced = FALSE /\ e.from = n /\ e.head = L /\ e.tail = 0
      BY <3>1 DEF Contiguous
    <3>4. CutShape(e, text)
      BY <1>1, <3>1, <3>2 DEF Contiguous, CutShape, L
    <3>5. EndCut(e, text, u, amount)
      BY <3>2, <3>3 DEF EndCut, L
    <3>6. QED
      BY <1>8, <2>1, <3>4, <3>5 DEF CutCase, L, u, room, e
  <2>2. CASE side # "start"
    <3> DEFINE n == prefix(amount)
    <3>1. e = Contiguous(0, n)
      BY <1>1, <1>8, <2>2 DEF Ellipsize, L, room, prefix
    <3>2. n \in 0..L /\ u[n] <= amount /\ (n < L => u[n + 1] > amount)
      BY <1>2, <1>3
    <3> HIDE DEF n, e
    <3>3. e.spliced = FALSE /\ e.from = 0 /\ e.head = n /\ e.tail = 0
      BY <3>1 DEF Contiguous
    <3>4. CutShape(e, text)
      BY <1>1, <3>1, <3>2 DEF Contiguous, CutShape, L
    <3>5. BeginCut(e, text, u, amount)
      BY <3>2, <3>3 DEF BeginCut, L
    <3>6. QED
      BY <1>8, <2>2, <3>4, <3>5 DEF CutCase, L, u, room, e
  <2>3. QED
    BY <2>1, <2>2
<1>9. CASE u[L] > amount /\ room <= amount
  <2> DEFINE content == amount - room
  <2>1. content \in Nat
    BY <1>1, <1>9
  <2>2. CASE side = "end"
    <3> DEFINE n == prefix(content)
    <3>1. e = Spliced(n, L)
      BY <1>1, <1>9, <2>2 DEF Ellipsize, L, room, prefix
    <3>2. n \in 0..L /\ u[n] <= content /\ (n < L => u[n + 1] > content)
      BY <1>2, <1>3, <2>1
    <3> HIDE DEF n, e, content
    <3>3. e.spliced = TRUE /\ e.from = 0 /\ e.head = n /\ e.tail = L
      BY <3>1 DEF Spliced
    <3>4. CutShape(e, text)
      BY <1>1, <3>1, <3>2 DEF Spliced, CutShape, L
    <3>5. MarkedEnd(e, text, u, content)
      BY <3>2, <3>3 DEF MarkedEnd, L
    <3>6. QED
      BY <1>9, <2>2, <3>4, <3>5 DEF CutCase, L, u, room, e, content
  <2>3. CASE side = "start"
    <3> DEFINE n == suffix(content)
    <3>1. e = Spliced(0, n)
      BY <1>1, <1>9, <2>3 DEF Ellipsize, L, room, suffix
    <3>2. n \in 0..L /\ u[L] - u[n] <= content /\ (n > 0 => u[L] - u[n - 1] > content)
      BY <1>4, <1>5, <2>1
    <3> HIDE DEF n, e, content
    <3>3. e.spliced = TRUE /\ e.from = 0 /\ e.head = 0 /\ e.tail = n
      BY <3>1 DEF Spliced
    <3>4. CutShape(e, text)
      BY <1>1, <3>1, <3>2 DEF Spliced, CutShape, L
    <3>5. MarkedStart(e, text, u, content)
      BY <3>2, <3>3 DEF MarkedStart, L
    <3>6. QED
      BY <1>9, <2>3, <3>4, <3>5 DEF CutCase, L, u, room, e, content
  <2>4. CASE side = "middle"
    <3> DEFINE big == (content + 1) \div 2
               small == content \div 2
               end == prefix(big)
               start == suffix(small)
               n == IF start > end THEN start ELSE end
    <3>1. big \in Nat /\ small \in Nat
      BY <2>1
    <3>2. e = Spliced(end, n)
      BY <1>1, <1>9, <2>4 DEF Ellipsize, Middle, L, room, prefix, suffix
    <3> HIDE DEF big, small
    <3>3. end \in 0..L /\ u[end] <= big /\ (end < L => u[end + 1] > big)
      BY <1>2, <1>3, <3>1
    <3>4. start \in 0..L /\ u[L] - u[start] <= small /\ (start > 0 => u[L] - u[start - 1] > small)
      BY <1>4, <1>5, <3>1
    <3> HIDE DEF e, content, end, start
    <3>5. n \in 0..L /\ end <= n /\ start <= n
      BY <1>1, <3>3, <3>4
    <3>6. u[L] - u[n] <= small
      <4>1. u[start] <= u[n]
        BY <1>6, <3>4, <3>5
      <4>2. u[start] \in Nat /\ u[n] \in Nat /\ u[L] \in Nat /\ L \in 0..L
        BY <1>1, <3>4, <3>5
      <4>3. QED
        BY <3>1, <3>4, <4>1, <4>2
    <3>7. end < n => n = start /\ start > 0 /\ end < L
      BY <1>1, <3>3, <3>4, <3>5
    <3> HIDE DEF n
    <3>8. e.spliced = TRUE /\ e.from = 0 /\ e.head = end /\ e.tail = n
      BY <3>2 DEF Spliced
    <3>9. CutShape(e, text)
      BY <1>1, <3>2, <3>3, <3>5 DEF Spliced, CutShape, L
    <3>10. MarkedMiddle(e, text, u, content)
      BY <3>3, <3>4, <3>6, <3>7, <3>8 DEF MarkedMiddle, L, big, small
    <3>11. QED
      BY <1>9, <2>4, <3>9, <3>10 DEF CutCase, L, u, room, e, content
  <2>5. QED
    BY <2>2, <2>3, <2>4 DEF Sides
<1>10. QED
  BY <1>1, <1>7, <1>8, <1>9

\* What is shown, and what it takes.
LEMMA ShownIs ==
  ASSUME NEW text \in Texts, NEW measure, NEW ind \in Texts, NEW e, CutShape(e, text)
  PROVE  LET u == Used(text, measure)
         IN /\ Shown(text, e, ind) \in Texts
            /\ Cost(Shown(text, e, ind), measure) =
                 (u[e.head] - u[e.from])
                   + (IF e.spliced THEN Cost(ind, measure) + (u[Len(text)] - u[e.tail]) ELSE 0)
<1> DEFINE u == Used(text, measure)
           L == Len(text)
           first == SubSeq(text, e.from + 1, e.head)
           rest == SubSeq(text, e.tail + 1, L)
           none == <<>>
<1>1. /\ L \in Nat /\ e.from \in 0..L /\ e.head \in 0..L /\ e.tail \in 0..L /\ L \in 0..L
      /\ e.from <= e.head /\ e.tail <= L /\ e.spliced \in BOOLEAN
  BY CostIs DEF CutShape
<1>2. first \in Texts /\ Cost(first, measure) = u[e.head] - u[e.from]
  BY <1>1, CostOfPart
<1>3. rest \in Texts /\ Cost(rest, measure) = u[L] - u[e.tail]
  BY <1>1, CostOfPart
<1>4. none \in Texts /\ Cost(none, measure) = 0
  <2>1. none \in Texts /\ Len(none) = 0
    BY DEF Texts
  <2> HIDE DEF none
  <2>2. QED
    BY <2>1, CostIs
<1> HIDE DEF u, L, first, rest, none
<1>5. CASE e.spliced
  <2>1. Shown(text, e, ind) = first \o (ind \o rest)
    BY <1>5 DEF Shown, first, rest, L
  <2>2. ind \o rest \in Texts /\ Cost(ind \o rest, measure) = Cost(ind, measure) + Cost(rest, measure)
    BY <1>3, CostOfJoin
  <2>3. first \o (ind \o rest) \in Texts
        /\ Cost(first \o (ind \o rest), measure) = Cost(first, measure) + Cost(ind \o rest, measure)
    BY <1>2, <2>2, CostOfJoin
  <2>4. QED
    BY <1>2, <1>3, <1>5, <2>1, <2>2, <2>3 DEF u, L
<1>6. CASE ~e.spliced
  <2>1. Shown(text, e, ind) = first \o none
    BY <1>6 DEF Shown, first, none
  <2>2. first \o none \in Texts /\ Cost(first \o none, measure) = Cost(first, measure) + Cost(none, measure)
    BY <1>2, <1>4, CostOfJoin
  <2>3. Cost(first, measure) \in Nat
    BY <1>2, CostIs
  <2>4. QED
    BY <1>2, <1>4, <1>6, <2>1, <2>2, <2>3 DEF u, L
<1>7. QED
  BY <1>1, <1>5, <1>6

LEMMA CutWithin ==
  ASSUME NEW text \in Texts, NEW measure, NEW amount \in Nat, NEW side \in Sides, NEW ind \in Texts, NEW e,
         CutShape(e, text), CutCase(e, text, measure, amount, side, ind)
  PROVE  Cost(Shown(text, e, ind), measure) <= amount
<1> DEFINE u == Used(text, measure)
           L == Len(text)
           room == Cost(ind, measure)
           used == Cost(Shown(text, e, ind), measure)
<1>1. /\ L \in Nat /\ u[0] = 0 /\ (\A k \in 0..L : u[k] \in Nat) /\ room \in Nat /\ L \in 0..L
      /\ e.from \in 0..L /\ e.head \in 0..L /\ e.tail \in 0..L /\ e.spliced \in BOOLEAN
      /\ e.spliced => e.from = 0
  BY CostIs DEF CutShape
<1>2. used = (u[e.head] - u[e.from]) + (IF e.spliced THEN room + (u[L] - u[e.tail]) ELSE 0)
  BY ShownIs
<1>3. u[e.head] \in Nat /\ u[e.from] \in Nat /\ u[e.tail] \in Nat /\ u[L] \in Nat
  BY <1>1
<1> HIDE DEF u, L, room, used
<1>4. CASE WholeCut(e, text, u, amount) \/ EndCut(e, text, u, amount) \/ BeginCut(e, text, u, amount)
  <2>1. ~e.spliced
    BY <1>4 DEF WholeCut, EndCut, BeginCut
  <2>2. used = u[e.head] - u[e.from]
    BY <1>2, <1>3, <2>1
  <2>3. CASE WholeCut(e, text, u, amount)
    BY <1>1, <1>3, <2>2, <2>3 DEF WholeCut, L, used
  <2>4. CASE EndCut(e, text, u, amount)
    BY <1>1, <1>3, <2>2, <2>4 DEF EndCut, L, used
  <2>5. CASE BeginCut(e, text, u, amount)
    BY <1>1, <1>3, <2>2, <2>5 DEF BeginCut, L, used
  <2>6. QED
    BY <1>4, <2>3, <2>4, <2>5
<1>5. CASE \/ MarkedEnd(e, text, u, amount - room) \/ MarkedStart(e, text, u, amount - room)
           \/ MarkedMiddle(e, text, u, amount - room)
  <2>1. e.spliced /\ e.from = 0
    BY <1>1, <1>5 DEF MarkedEnd, MarkedStart, MarkedMiddle
  <2>2. used = u[e.head] + (room + (u[L] - u[e.tail]))
    BY <1>1, <1>2, <1>3, <2>1
  <2>3. CASE MarkedEnd(e, text, u, amount - room)
    <3>1. u[e.tail] = u[L] /\ u[e.head] <= amount - room
      BY <2>3 DEF MarkedEnd, L
    <3>2. QED
      BY <1>1, <1>3, <2>2, <3>1 DEF used
  <2>4. CASE MarkedStart(e, text, u, amount - room)
    <3>1. u[e.head] = 0 /\ u[L] - u[e.tail] <= amount - room
      BY <1>1, <2>4 DEF MarkedStart, L
    <3>2. QED
      BY <1>1, <1>3, <2>2, <3>1 DEF used
  <2>5. CASE MarkedMiddle(e, text, u, amount - room)
    <3>1. u[e.head] <= ((amount - room) + 1) \div 2 /\ u[L] - u[e.tail] <= (amount - room) \div 2
      BY <2>5 DEF MarkedMiddle, L
    <3>2. \A c \in Int : ((c + 1) \div 2) + (c \div 2) = c /\ (c + 1) \div 2 \in Int /\ c \div 2 \in Int
      OBVIOUS
    <3>3. amount - room \in Int
      BY <1>1
    <3>4. QED
      BY <1>1, <1>3, <2>2, <3>1, <3>2, <3>3 DEF used
  <2>6. QED
    BY <1>5, <2>3, <2>4, <2>5
<1>6. QED
  BY <1>4, <1>5 DEF CutCase, u, L, room

\* A cut that is not the whole text could take no more of it.
LongestCut(text, measure, amount, side, ind, e) ==
  LET shown   == Shown(text, e, ind)
      next(i) == CostOf(text[i], measure)
      more(x) == Cost(shown, measure) + x > amount
  IN \/ shown = text
     \/ /\ ~e.spliced /\ amount < Cost(ind, measure)
        /\ more(next(IF side = "start" THEN e.from ELSE e.head + 1))
     \/ /\ e.spliced /\ e.head <= e.tail
        /\ side = "end"    => more(next(e.head + 1))
        /\ side = "start"  => more(next(e.tail))
        /\ side = "middle" => (e.head < e.tail => more(next(e.head + 1) + next(e.tail)))

LEMMA CutLongest ==
  ASSUME NEW text \in Texts, NEW measure, NEW amount \in Nat, NEW side \in Sides, NEW ind \in Texts, NEW e,
         CutShape(e, text), CutCase(e, text, measure, amount, side, ind)
  PROVE  LongestCut(text, measure, amount, side, ind, e)
<1> DEFINE u == Used(text, measure)
           L == Len(text)
           room == Cost(ind, measure)
           shown == Shown(text, e, ind)
           used == Cost(shown, measure)
           next(i) == CostOf(text[i], measure)
<1>1. /\ L \in Nat /\ u[0] = 0 /\ (\A k \in 0..L : u[k] \in Nat) /\ room \in Nat /\ L \in 0..L
      /\ e.from \in 0..L /\ e.head \in 0..L /\ e.tail \in 0..L /\ e.spliced \in BOOLEAN
      /\ e.spliced => e.from = 0 /\ e.head <= e.tail
  BY CostIs DEF CutShape
<1>2. used = (u[e.head] - u[e.from]) + (IF e.spliced THEN room + (u[L] - u[e.tail]) ELSE 0)
  BY ShownIs
<1>3. u[e.head] \in Nat /\ u[e.from] \in Nat /\ u[e.tail] \in Nat /\ u[L] \in Nat
  BY <1>1
<1>4. \A k \in 1..L : next(k) \in Nat /\ u[k] = u[k - 1] + next(k) /\ u[k - 1] \in Nat /\ u[k] \in Nat
  <2>1. \A k \in 1..L : k - 1 \in 0..L /\ k \in 0..L
    BY <1>1
  <2>2. \A k \in 1..L : next(k) \in Nat
    BY GraphemeCosts
  <2>3. \A k \in 1..L : u[k] = u[k - 1] + next(k)
    BY UsedIs
  <2>4. QED
    BY <1>1, <2>1, <2>2, <2>3
<1>5. ~e.spliced /\ e.from = 0 /\ e.head = L => shown = text
  <2>1. text \in Seq([w : Nat, b : Nat, blank : BOOLEAN])
    BY DEF Texts
  <2>2. SubSeq(text, 1, Len(text)) = text
    BY <2>1
  <2>3. text \o <<>> = text
    BY <2>1
  <2>4. QED
    BY <2>2, <2>3 DEF Shown, shown, L
<1> HIDE DEF u, L, room, used, shown, next
<1>6. CASE WholeCut(e, text, u, amount)
  BY <1>5, <1>6 DEF WholeCut, LongestCut, shown, L
<1>7. CASE u[L] > amount /\ amount < room /\ side = "start" /\ EndCut(e, text, u, amount)
  <2>1. ~e.spliced /\ e.head = L /\ (e.from > 0 => u[L] - u[e.from - 1] > amount)
    BY <1>7 DEF EndCut, L
  <2>2. CASE e.from = 0
    BY <1>5, <2>1, <2>2 DEF LongestCut, shown
  <2>3. CASE e.from # 0
    <3>1. e.from \in 1..L
      BY <1>1, <2>3
    <3>2. u[e.from] = u[e.from - 1] + next(e.from) /\ next(e.from) \in Nat /\ u[e.from - 1] \in Nat
      BY <1>4, <3>1
    <3>3. used = u[L] - u[e.from] /\ u[L] - u[e.from - 1] > amount
      BY <1>2, <1>3, <2>1, <3>1, <1>1
    <3>4. used + next(e.from) > amount
      BY <1>3, <3>2, <3>3
    <3>5. QED
      BY <1>7, <2>1, <3>4 DEF LongestCut, used, shown, next, room
  <2>4. QED
    BY <2>2, <2>3
<1>8. CASE u[L] > amount /\ amount < room /\ side # "start" /\ BeginCut(e, text, u, amount)
  <2>1. ~e.spliced /\ e.from = 0 /\ u[e.head] <= amount /\ (e.head < L => u[e.head + 1] > amount)
    BY <1>8 DEF BeginCut, L
  <2>2. e.head # L
    BY <1>3, <1>8, <2>1
  <2>3. e.head + 1 \in 1..L /\ (e.head + 1) - 1 = e.head /\ e.head < L
    BY <1>1, <2>2
  <2>4. u[e.head + 1] = u[e.head] + next(e.head + 1) /\ next(e.head + 1) \in Nat
    BY <1>4, <2>3
  <2>5. used = u[e.head]
    BY <1>1, <1>2, <1>3, <2>1
  <2>6. used + next(e.head + 1) > amount
    BY <2>1, <2>3, <2>4, <2>5
  <2>7. QED
    BY <1>8, <2>1, <2>6 DEF LongestCut, used, shown, next, room
<1>9. CASE u[L] > amount /\ room <= amount /\ side = "end" /\ MarkedEnd(e, text, u, amount - room)
  <2>1. e.spliced /\ e.tail = L /\ u[e.head] <= amount - room /\ (e.head < L => u[e.head + 1] > amount - room)
    BY <1>9 DEF MarkedEnd, L
  <2>2. e.head # L
    BY <1>1, <1>3, <1>9, <2>1
  <2>3. e.head + 1 \in 1..L /\ (e.head + 1) - 1 = e.head /\ e.head < L
    BY <1>1, <2>2
  <2>4. u[e.head + 1] = u[e.head] + next(e.head + 1) /\ next(e.head + 1) \in Nat
    BY <1>4, <2>3
  <2>5. used = u[e.head] + room
    BY <1>1, <1>2, <1>3, <2>1
  <2>6. used + next(e.head + 1) > amount
    BY <1>1, <1>3, <2>1, <2>3, <2>4, <2>5
  <2>7. QED
    BY <1>1, <1>9, <2>1, <2>6 DEF LongestCut, used, shown, next
<1>10. CASE u[L] > amount /\ room <= amount /\ side = "start" /\ MarkedStart(e, text, u, amount - room)
  <2>1. e.spliced /\ e.head = 0 /\ u[L] - u[e.tail] <= amount - room
        /\ (e.tail > 0 => u[L] - u[e.tail - 1] > amount - room)
    BY <1>10 DEF MarkedStart, L
  <2>2. e.tail # 0
    BY <1>1, <1>3, <1>10, <2>1
  <2>3. e.tail \in 1..L /\ e.tail > 0
    BY <1>1, <2>2
  <2>4. u[e.tail] = u[e.tail - 1] + next(e.tail) /\ next(e.tail) \in Nat /\ u[e.tail - 1] \in Nat
    BY <1>4, <2>3
  <2>5. used = room + (u[L] - u[e.tail])
    BY <1>1, <1>2, <1>3, <2>1
  <2>6. used + next(e.tail) > amount
    BY <1>1, <1>3, <2>1, <2>3, <2>4, <2>5
  <2>7. QED
    BY <1>1, <1>10, <2>1, <2>6 DEF LongestCut, used, shown, next
<1>11. CASE u[L] > amount /\ room <= amount /\ side = "middle" /\ MarkedMiddle(e, text, u, amount - room)
  <2> DEFINE c == amount - room
  <2>1. e.spliced /\ (e.head < e.tail => u[e.head + 1] > (c + 1) \div 2 /\ u[L] - u[e.tail - 1] > c \div 2)
    BY <1>11 DEF MarkedMiddle, L
  <2>2. ASSUME e.head < e.tail PROVE used + (next(e.head + 1) + next(e.tail)) > amount
    <3>1. e.head + 1 \in 1..L /\ (e.head + 1) - 1 = e.head /\ e.tail \in 1..L
      BY <1>1, <2>2
    <3>2. u[e.head + 1] = u[e.head] + next(e.head + 1) /\ next(e.head + 1) \in Nat
      BY <1>4, <3>1
    <3>3. u[e.tail] = u[e.tail - 1] + next(e.tail) /\ next(e.tail) \in Nat /\ u[e.tail - 1] \in Nat
      BY <1>4, <3>1
    <3>4. used = u[e.head] + (room + (u[L] - u[e.tail]))
      BY <1>1, <1>2, <1>3, <2>1
    <3>5. c \in Int /\ amount = c + room
      BY <1>1
    <3> HIDE DEF c
    <3>6. ((c + 1) \div 2) + (c \div 2) = c /\ (c + 1) \div 2 \in Int /\ c \div 2 \in Int
      BY <3>5
    <3>7. u[e.head] + next(e.head + 1) > (c + 1) \div 2 /\ u[L] - u[e.tail - 1] > c \div 2
      BY <2>1, <2>2, <3>2
    <3>8. QED
      BY <1>1, <1>3, <3>2, <3>3, <3>4, <3>5, <3>6, <3>7
  <2>3. QED
    BY <1>1, <1>11, <2>1, <2>2 DEF LongestCut, used, shown, next
<1>12. QED
  BY <1>6, <1>7, <1>8, <1>9, <1>10, <1>11 DEF CutCase, u, L, room

\* The bytes of what is shown, and where the map says they come from.
MapsBack(text, e, ind) ==
  LET upto  == Used(text, "bytes")
      whole == BytesOf(text)
      kept  == SubSeq(whole, upto[e.from] + 1, upto[e.head])
      tail  == SubSeq(whole, upto[e.tail] + 1, Len(whole))
      shown == IF e.spliced THEN kept \o [k \in 1..Cost(ind, "bytes") |-> <<>>] \o tail ELSE kept
  IN \A k \in DOMAIN shown :
       LET index == SourceIndex(text, e, ind, k - 1)
       IN IF index = -1 THEN shown[k] = <<>> ELSE index + 1 \in DOMAIN whole /\ whole[index + 1] = shown[k]

\* A sequence is two, one after the other.
Joins2(s, p, q) ==
  /\ Len(s) = Len(p) + Len(q) /\ Len(p) \in Nat /\ Len(q) \in Nat
  /\ \A k \in 1..Len(p) : s[k] = p[k]
  /\ \A k \in 1..Len(q) : s[Len(p) + k] = q[k]

LEMMA Join2 ==
  ASSUME NEW G, NEW p \in Seq(G), NEW q \in Seq(G)
  PROVE  p \o q \in Seq(G) /\ Joins2(p \o q, p, q)
BY DEF Joins2

\* A sequence is three, one after the other.
Joins(s, p, q, r) ==
  /\ Len(s) = (Len(p) + Len(q)) + Len(r)
  /\ \A k \in 1..Len(p) : s[k] = p[k]
  /\ \A k \in 1..Len(q) : s[Len(p) + k] = q[k]
  /\ \A k \in 1..Len(r) : s[(Len(p) + Len(q)) + k] = r[k]

LEMMA JoinIs ==
  ASSUME NEW G, NEW p \in Seq(G), NEW q \in Seq(G), NEW r \in Seq(G)
  PROVE  p \o q \o r \in Seq(G) /\ Joins(p \o q \o r, p, q, r)
<1> DEFINE s == p \o q
           w == s \o r
<1>1. /\ s \in Seq(G) /\ Len(s) = Len(p) + Len(q) /\ Len(p) \in Nat /\ Len(q) \in Nat /\ Len(r) \in Nat
      /\ \A k \in 1..Len(p) : s[k] = p[k]
      /\ \A k \in 1..Len(q) : s[Len(p) + k] = q[k]
  BY Join2 DEF Joins2
<1> HIDE DEF s
<1>2. /\ w \in Seq(G) /\ Len(w) = Len(s) + Len(r)
      /\ \A k \in 1..Len(s) : w[k] = s[k]
      /\ \A k \in 1..Len(r) : w[Len(s) + k] = r[k]
  <2>1. w \in Seq(G) /\ Joins2(w, s, r)
    BY <1>1, Join2
  <2> HIDE DEF w
  <2>2. QED
    BY <2>1 DEF Joins2
<1> HIDE DEF w
<1>3. \A k \in 1..Len(p) : k \in 1..Len(s)
  BY <1>1
<1>4. \A k \in 1..Len(q) : Len(p) + k \in 1..Len(s)
  BY <1>1
<1>5. Joins(w, p, q, r)
  <2>1. \A k \in 1..Len(p) : w[k] = p[k]
    BY <1>1, <1>2, <1>3
  <2>2. ASSUME NEW k \in 1..Len(q) PROVE w[Len(p) + k] = q[k]
    <3>1. w[Len(p) + k] = s[Len(p) + k]
      BY <1>2, <1>4
    <3>2. QED
      BY <1>1, <3>1
  <2>3. \A k \in 1..Len(r) : w[(Len(p) + Len(q)) + k] = r[k]
    BY <1>1, <1>2
  <2>4. Len(w) = (Len(p) + Len(q)) + Len(r)
    BY <1>1, <1>2
  <2>5. QED
    BY <2>1, <2>2, <2>3, <2>4 DEF Joins
<1>6. QED
  BY <1>2, <1>5 DEF s, w

LEMMA CutMaps ==
  ASSUME NEW text \in Texts, NEW ind \in Texts, NEW e, CutShape(e, text)
  PROVE  MapsBack(text, e, ind)
<1> DEFINE u == Used(text, "bytes")
           L == Len(text)
           whole == BytesOf(text)
           G == {whole[k] : k \in 1..u[L]} \cup {<<>>}
           marker == Cost(ind, "bytes")
           mark == [k \in 1..marker |-> <<>>]
           kept == SubSeq(whole, u[e.from] + 1, u[e.head])
           tail == SubSeq(whole, u[e.tail] + 1, Len(whole))
           h == u[e.head]
           f == u[e.from]
           t == u[e.tail]
           n == u[L]
           index(k) == SourceIndex(text, e, ind, k - 1)
<1>1. /\ L \in Nat /\ L \in 0..L /\ u[0] = 0 /\ (\A k \in 0..L : u[k] \in Nat) /\ marker \in Nat
      /\ e.from \in 0..L /\ e.head \in 0..L /\ e.tail \in 0..L /\ e.spliced \in BOOLEAN
      /\ e.from <= e.head /\ e.tail <= L /\ e.head <= L
      /\ e.spliced => e.from = 0 /\ e.head <= e.tail
  BY CostIs DEF CutShape
<1>2. h \in Nat /\ f \in Nat /\ t \in Nat /\ n \in Nat /\ f <= h /\ t <= n /\ h <= n
  BY <1>1, UsedGrows
<1>3. whole \in Seq(G) /\ Len(whole) = n /\ DOMAIN whole = 1..n
  <2>1. DOMAIN whole = 1..n /\ whole = [k \in 1..n |-> whole[k]]
    BY DEF BytesOf
  <2> HIDE DEF whole, n
  <2>2. whole \in [1..n -> G]
    BY <2>1 DEF n
  <2> HIDE DEF G
  <2>3. QED
    BY <1>2, <2>2, FunIsSeq
<1>4. mark \in Seq(G) /\ Len(mark) = marker /\ \A k \in 1..marker : mark[k] = <<>>
  <2>1. <<>> \in G
    OBVIOUS
  <2> HIDE DEF G, marker
  <2>2. mark \in [1..marker -> G]
    BY <2>1
  <2>3. QED
    BY <1>1, <2>2, FunIsSeq
<1>5. \A k : index(k) = IF ~e.spliced THEN (k - 1) + f
                     ELSE IF k - 1 < h THEN k - 1
                     ELSE IF k - 1 >= h + marker THEN (k - 1) - h - marker + t ELSE -1
  BY DEF SourceIndex
<1> HIDE DEF G, whole, u, marker, mark, h, f, t, n, index, L
<1>6. kept \in Seq(G) /\ Len(kept) = h - f /\ \A k \in 1..(h - f) : kept[k] = whole[f + k]
  <2>1. f \in 0..Len(whole) /\ h \in 0..Len(whole)
    BY <1>2, <1>3
  <2>2. /\ SubSeq(whole, f + 1, h) \in Seq(G) /\ Len(SubSeq(whole, f + 1, h)) = h - f
        /\ \A k \in 1..(h - f) : SubSeq(whole, f + 1, h)[k] = whole[f + k]
    BY <1>2, <1>3, <2>1, PartIs
  <2>3. QED
    BY <2>2 DEF h, f
<1>7. tail \in Seq(G) /\ Len(tail) = n - t /\ \A k \in 1..(n - t) : tail[k] = whole[t + k]
  <2>1. t \in 0..Len(whole) /\ n \in 0..Len(whole)
    BY <1>2, <1>3
  <2>2. /\ SubSeq(whole, t + 1, n) \in Seq(G) /\ Len(SubSeq(whole, t + 1, n)) = n - t
        /\ \A k \in 1..(n - t) : SubSeq(whole, t + 1, n)[k] = whole[t + k]
    BY <1>2, <1>3, <2>1, PartIs
  <2>3. QED
    BY <1>3, <2>2 DEF t
<1> HIDE DEF kept, tail
<1> DEFINE Right(shown) ==
             \A k \in DOMAIN shown :
               IF index(k) = -1 THEN shown[k] = <<>> ELSE index(k) + 1 \in DOMAIN whole /\ whole[index(k) + 1] = shown[k]
<1>8. CASE ~e.spliced
  <2>1. ASSUME NEW k \in DOMAIN kept PROVE index(k) # -1 /\ index(k) + 1 \in DOMAIN whole /\ whole[index(k) + 1] = kept[k]
    <3>1. k \in 1..(h - f)
      BY <1>6
    <3>2. index(k) = (k - 1) + f
      BY <1>5, <1>8
    <3>3. index(k) # -1 /\ index(k) + 1 = f + k /\ f + k \in 1..n
      BY <1>2, <3>1, <3>2
    <3>4. QED
      BY <1>3, <1>6, <3>1, <3>3
  <2>2. Right(kept)
    BY <2>1
  <2>3. QED
    BY <1>8, <2>2 DEF MapsBack, whole, kept, index, u
<1>9. CASE e.spliced
  <2> DEFINE shown == kept \o mark \o tail
  <2>1. f = 0
    BY <1>1, <1>9 DEF f
  <2>2. /\ shown \in Seq(G) /\ Len(shown) = (Len(kept) + Len(mark)) + Len(tail)
        /\ \A k \in 1..Len(kept) : shown[k] = kept[k]
        /\ \A k \in 1..Len(mark) : shown[Len(kept) + k] = mark[k]
        /\ \A k \in 1..Len(tail) : shown[(Len(kept) + Len(mark)) + k] = tail[k]
    <3>1. shown \in Seq(G) /\ Joins(shown, kept, mark, tail)
      BY <1>4, <1>6, <1>7, JoinIs
    <3> HIDE DEF shown
    <3>2. QED
      BY <3>1 DEF Joins
  <2> HIDE DEF shown
  <2>3. Len(kept) = h /\ Len(mark) = marker /\ Len(tail) = n - t /\ DOMAIN shown = 1..((h + marker) + (n - t))
    BY <1>1, <1>2, <1>4, <1>6, <1>7, <2>1, <2>2
  <2>4. ASSUME NEW k \in DOMAIN shown, k - 1 < h
        PROVE  index(k) # -1 /\ index(k) + 1 \in DOMAIN whole /\ whole[index(k) + 1] = shown[k]
    <3>1. k \in 1..h /\ k \in 1..(h - f) /\ k \in 1..n /\ f + k = k /\ (k - 1) + 1 = k /\ k - 1 # -1
      BY <1>1, <1>2, <2>1, <2>3, <2>4
    <3>2. index(k) = k - 1
      BY <1>5, <1>9, <2>4
    <3>3. shown[k] = whole[k]
      BY <1>6, <2>2, <2>3, <3>1
    <3>4. QED
      BY <1>3, <3>1, <3>2, <3>3
  <2>5. ASSUME NEW k \in DOMAIN shown, ~(k - 1 < h), k - 1 >= h + marker
        PROVE  index(k) # -1 /\ index(k) + 1 \in DOMAIN whole /\ whole[index(k) + 1] = shown[k]
    <3> DEFINE i == k - (h + marker)
    <3>1. i \in 1..(n - t) /\ (h + marker) + i = k /\ t + i \in 1..n /\ ((k - 1) - h - marker + t) + 1 = t + i
          /\ (k - 1) - h - marker + t # -1
      <4>1. k \in 1..((h + marker) + (n - t))
        BY <2>3
      <4>2. k \in Nat /\ i \in Int /\ k = (h + marker) + i
        BY <1>1, <1>2, <4>1
      <4> HIDE DEF i
      <4>3. i >= 1 /\ i <= n - t
        BY <1>1, <1>2, <2>5, <4>1, <4>2
      <4>4. i \in 1..(n - t) /\ t + i \in 1..n
        BY <1>2, <4>2, <4>3
      <4>5. (k - 1) - h - marker + t = (t + i) - 1
        BY <1>1, <1>2, <4>2
      <4>6. QED
        BY <1>2, <4>2, <4>3, <4>4, <4>5
    <3> HIDE DEF i
    <3>2. index(k) = (k - 1) - h - marker + t
      BY <1>5, <1>9, <2>5
    <3>3. shown[k] = tail[i]
      BY <2>2, <2>3, <3>1
    <3>4. tail[i] = whole[t + i]
      BY <1>7, <3>1
    <3>5. QED
      BY <1>3, <3>1, <3>2, <3>3, <3>4
  <2>6. ASSUME NEW k \in DOMAIN shown, ~(k - 1 < h), ~(k - 1 >= h + marker)
        PROVE  index(k) = -1 /\ shown[k] = <<>>
    <3> DEFINE i == k - h
    <3>1. i \in 1..marker /\ h + i = k
      BY <1>1, <1>2, <2>3, <2>6
    <3> HIDE DEF i
    <3>2. index(k) = -1
      BY <1>5, <1>9, <2>6
    <3>3. shown[k] = mark[i]
      BY <2>2, <2>3, <3>1
    <3>4. QED
      BY <1>4, <3>1, <3>2, <3>3
  <2>7. Right(shown)
    BY <2>4, <2>5, <2>6
  <2>8. QED
    BY <1>9, <2>7 DEF MapsBack, whole, kept, tail, mark, marker, shown, index, u
<1>10. QED
  BY <1>1, <1>8, <1>9

-----------------------------------------------------------------------------
(* The summary.                                                             *)

LEMMA TrimIs ==
  ASSUME NEW text \in Texts
  PROVE  TrimBlanks(text) \in Texts
<1> DEFINE L == Len(text)
           kept == {i \in DOMAIN text : ~text[i].blank}
<1>1. L \in Nat /\ DOMAIN text = 1..L
  BY GraphemeCosts
<1>2. CASE kept = {}
  BY <1>2 DEF TrimBlanks, Texts
<1>3. CASE kept # {}
  <2> DEFINE IsFirst(i) == \A j \in kept : i <= j
             IsLast(i) == \A j \in kept : j <= i
             first == CHOOSE i \in kept : IsFirst(i)
             last == CHOOSE i \in kept : IsLast(i)
  <2>1. kept \in SUBSET Nat /\ kept \subseteq 1..L
    BY <1>1
  <2>2. TrimBlanks(text) = SubSeq(text, first, last)
    BY <1>3 DEF TrimBlanks
  <2> HIDE DEF kept
  <2>3. \E i \in kept : IsFirst(i)
    BY <1>3, <2>1, Least
  <2>4. \E i \in kept : IsLast(i)
    <3> DEFINE far == {L - i : i \in kept}
    <3>1. far \in SUBSET Nat /\ far # {}
      <4>1. \A i \in kept : L - i \in Nat
        BY <1>1, <2>1
      <4> HIDE DEF L
      <4>2. PICK i : i \in kept
        BY <1>3
      <4>3. QED
        BY <4>1, <4>2
    <3>2. PICK n \in far : \A m \in far : n <= m
      <4> HIDE DEF far
      <4>1. QED
        BY <3>1, Least
    <3>3. PICK i \in kept : n = L - i
      BY <3>2
    <3>4. ASSUME NEW j \in kept PROVE j <= i
      <4>1. L - i <= L - j
        BY <3>2, <3>3
      <4>2. QED
        BY <1>1, <2>1, <4>1
    <3>5. QED
      BY <3>4
  <2> HIDE DEF IsFirst, IsLast
  <2>5. first \in kept /\ last \in kept /\ IsFirst(first)
    BY <2>3, <2>4
  <2> HIDE DEF first, last
  <2>6. first \in 1..L /\ last \in 1..L /\ first <= last
    BY <2>1, <2>5 DEF IsFirst
  <2>7. first - 1 \in 0..Len(text) /\ last \in 0..Len(text) /\ first - 1 <= last /\ (first - 1) + 1 = first
    BY <1>1, <2>6
  <2>8. SubSeq(text, (first - 1) + 1, last) \in Texts
    BY <2>7, CostOfPart
  <2>9. QED
    BY <2>2, <2>7, <2>8
<1>4. QED
  BY <1>2, <1>3

\* Spaces are as wide as there are of them.
LEMMA SpacesAre ==
  ASSUME NEW n \in Nat
  PROVE  Spaces(n) \in Texts /\ Len(Spaces(n)) = n /\ Cost(Spaces(n), "columns") = n
<1> DEFINE s == Spaces(n)
           u == Used(s, "columns")
           T == {k \in 0..n : u[k] = k}
<1>1. s \in Texts /\ Len(s) = n /\ \A k \in 1..n : s[k] = Space
  <2>1. Space \in [w : Nat, b : Nat, blank : BOOLEAN]
    BY DEF Space
  <2>2. s \in [1..n -> [w : Nat, b : Nat, blank : BOOLEAN]] /\ \A k \in 1..n : s[k] = Space
    BY <2>1 DEF Spaces
  <2> HIDE DEF s
  <2>3. QED
    BY <2>2, FunIsSeq DEF Texts
<1> HIDE DEF s
<1>2. u[0] = 0 /\ \A k \in 1..n : u[k] = u[k - 1] + CostOf(s[k], "columns")
  BY <1>1, UsedIs
<1>3. CostOf(Space, "columns") = 1
  BY DEF CostOf, Space
<1> HIDE DEF u
<1>4. \A k \in 1..n : u[k] = u[k - 1] + 1
  BY <1>1, <1>2, <1>3
<1>5. 0 \in T
  BY <1>2
<1>6. ASSUME NEW k \in 1..n, k - 1 \in T PROVE k \in T
  BY <1>4, <1>6
<1> HIDE DEF T
<1>7. n \in T
  BY <1>5, <1>6, UpTo
<1>8. u[n] = n
  BY <1>7 DEF T
<1>9. QED
  BY <1>1, <1>8 DEF Cost, u, s

\* Padded at its end, a text is as wide as asked for, or as it was.
LEMMA PadIs ==
  ASSUME NEW text \in Texts, NEW amount \in Nat
  PROVE  Cost(PadTo(text, "columns", amount, "start"), "columns")
           = IF amount > Cost(text, "columns") THEN amount ELSE Cost(text, "columns")
<1> DEFINE cost == Cost(text, "columns")
           pad == Pad(text, "columns", amount)
           s == Spaces(0)
           t == Spaces(pad - 0)
<1>1. cost \in Nat /\ pad = IF amount > cost THEN amount - cost ELSE 0
  BY CostIs DEF Pad
<1>2. pad \in Nat /\ pad - 0 = pad /\ 0 \in Nat
  BY <1>1
<1>3. PadTo(text, "columns", amount, "start") = s \o text \o t
  BY DEF PadTo
<1> HIDE DEF pad, cost
<1>4. s \in Texts /\ Cost(s, "columns") = 0 /\ t \in Texts /\ Cost(t, "columns") = pad
  BY <1>2, SpacesAre
<1> HIDE DEF s, t
<1>5. s \o text \in Texts /\ Cost(s \o text, "columns") = Cost(s, "columns") + Cost(text, "columns")
  BY <1>4, CostOfJoin
<1>6. Cost((s \o text) \o t, "columns") = Cost(s \o text, "columns") + Cost(t, "columns")
  BY <1>4, <1>5, CostOfJoin
<1>7. Cost(PadTo(text, "columns", amount, "start"), "columns") = (0 + cost) + pad
  BY <1>3, <1>4, <1>5, <1>6 DEF cost
<1>8. (0 + cost) + pad = IF amount > cost THEN amount ELSE cost
  BY <1>1
<1>9. QED
  BY <1>7, <1>8 DEF cost

LEMMA NamesAre ==
  ASSUME label \in Texts, command \in Texts
  PROVE  NamesAligned
<1> DEFINE trimmed == TrimBlanks(command)
           e == Ellipsize(trimmed, "columns", NameColumns, "end", Unicode)
           name == Shown(trimmed, e, Unicode)
           w1 == Cost(label, "columns")
           w2 == Cost(name, "columns")
<1>1. trimmed \in Texts /\ NameColumns \in Nat /\ "end" \in Sides
  BY TrimIs, AmountsAssumption DEF Sides
<1>2. Unicode \in Texts
  BY DEF Unicode, Texts
<1> HIDE DEF trimmed
<1>3. CutShape(e, trimmed) /\ CutCase(e, trimmed, "columns", NameColumns, "end", Unicode)
  BY <1>1, <1>2, CutIs
<1> HIDE DEF e
<1>4. name \in Texts /\ Cost(name, "columns") <= NameColumns
  <2>1. name \in Texts
    BY <1>1, <1>2, <1>3, ShownIs
  <2>2. QED
    BY <1>1, <1>2, <1>3, <2>1, CutWithin
<1>5. DisplayNames[1] = label /\ DisplayNames[2] = name
  BY DEF DisplayNames, trimmed, e
<1> HIDE DEF name
<1>6. w1 \in Nat /\ w2 \in Nat
  BY <1>4, CostIs
<1>7. WidestName = IF w1 > w2 THEN w1 ELSE w2
  BY <1>5 DEF WidestName
<1>8. WidestName \in Nat
  BY <1>6, <1>7
<1>9. Cost(PadTo(label, "columns", WidestName, "start"), "columns") = IF WidestName > w1 THEN WidestName ELSE w1
  BY <1>8, PadIs
<1>10. Cost(PadTo(name, "columns", WidestName, "start"), "columns") = IF WidestName > w2 THEN WidestName ELSE w2
  BY <1>4, <1>8, PadIs
<1>11. \A i \in 1..2 : i = 1 \/ i = 2
  OBVIOUS
<1> HIDE DEF w1, w2
<1>12. /\ Cost(PadTo(label, "columns", WidestName, "start"), "columns") = WidestName
       /\ Cost(PadTo(name, "columns", WidestName, "start"), "columns") = WidestName
  BY <1>6, <1>7, <1>9, <1>10
<1>13. QED
  BY <1>4, <1>5, <1>11, <1>12 DEF NamesAligned

\* The units of a duration, and what is left of it behind each.
LEMMA UnitsAre ==
  /\ Len(Units) = 5 /\ DOMAIN Units = 1..5 /\ \A u \in 1..5 : Units[u] \in Nat /\ Units[u] > 0
  /\ Units[5] = 1
BY SMT DEF Units

LEMMA Divides ==
  ASSUME NEW n \in Nat, NEW d \in Nat, d > 0
  PROVE  /\ n % d \in Nat /\ n % d < d /\ n \div d \in Nat
         /\ (n \div d) * d = n - (n % d)
BY SMT

Rests(rest, ms) == rest = [u \in 0..Len(Units) |-> IF u = 0 THEN ms ELSE rest[u - 1] % Units[u]]

LEMMA CompactIs ==
  ASSUME NEW ms \in Nat
  PROVE  \E rest : /\ rest[0] = ms /\ rest[5] = 0 /\ \A u \in 0..5 : rest[u] \in Nat
                   /\ \A u \in 1..5 : rest[u] < Units[u]
                   /\ \A u \in 1..5 : Compact(ms)[u] * Units[u] = rest[u - 1] - rest[u]
<1> DEFINE F == [u \in 1..5 |-> [n \in Nat |-> n % Units[u]]]
           rest == CHOOSE r : Rests(r, ms)
<1>1. \A u \in 1..5 : u - 1 \in 0..5 /\ u \in 0..5 /\ u # 0
  OBVIOUS
<1>2. \A u \in 0..5 : u = 0 \/ u \in 1..5
  OBVIOUS
<1>3. \A u \in 1..5, n \in Nat : n % Units[u] \in Nat /\ n % Units[u] < Units[u]
  BY UnitsAre, Divides
<1>4. F \in [1..5 -> [Nat -> Nat]]
  BY <1>3
<1>5. PICK f : Recurs(f, 5, Nat, ms, F)
  <2> HIDE DEF F
  <2>1. 5 \in Nat
    OBVIOUS
  <2>2. QED
    BY <1>4, <2>1, Recursion
<1>6. Rests(f, ms)
  <2>1. \A u \in 1..5 : f[u] = f[u - 1] % Units[u]
    BY <1>1, <1>5 DEF Recurs
  <2>2. \A u \in 0..5 : f[u] = IF u = 0 THEN ms ELSE f[u - 1] % Units[u]
    BY <1>2, <1>5, <2>1 DEF Recurs
  <2>3. f = [u \in 0..5 |-> f[u]]
    BY <1>5 DEF Recurs
  <2>4. QED
    BY <2>2, <2>3, UnitsAre DEF Rests
<1>7. Rests(rest, ms)
  <2> HIDE DEF rest
  <2>1. rest = CHOOSE r : Rests(r, ms)
    BY DEF rest
  <2>2. QED
    BY <1>6, <2>1
<1>8. Compact(ms) = [u \in DOMAIN Units |-> rest[u - 1] \div Units[u]]
  BY DEF Compact, Rests
<1> HIDE DEF rest, F
<1>9. rest[0] = ms /\ \A u \in 1..5 : rest[u] = rest[u - 1] % Units[u]
  <2>1. \A u \in 0..5 : rest[u] = IF u = 0 THEN ms ELSE rest[u - 1] % Units[u]
    BY <1>7, UnitsAre DEF Rests
  <2>2. 0 \in 0..5
    OBVIOUS
  <2>3. QED
    BY <1>1, <2>1, <2>2
<1> DEFINE T == {u \in 0..5 : rest[u] \in Nat}
<1>10. \A u \in 0..5 : rest[u] \in Nat
  <2>1. 0 \in T /\ 5 \in Nat
    BY <1>9
  <2>2. ASSUME NEW u \in 1..5, u - 1 \in T PROVE u \in T
    <3>1. rest[u - 1] \in Nat /\ u \in 0..5
      BY <1>1, <2>2
    <3>2. rest[u] \in Nat
      BY <1>3, <1>9, <3>1
    <3>3. QED
      BY <3>1, <3>2
  <2> HIDE DEF T
  <2>3. \A u \in 0..5 : u \in T
    BY <2>1, <2>2, UpTo
  <2>4. QED
    BY <2>3 DEF T
<1>11. \A u \in 1..5 : rest[u] < Units[u]
  BY <1>1, <1>3, <1>9, <1>10
<1>12. ASSUME NEW u \in 1..5 PROVE Compact(ms)[u] * Units[u] = rest[u - 1] - rest[u]
  <2>1. Compact(ms)[u] = rest[u - 1] \div Units[u]
    BY <1>8, UnitsAre
  <2>2. rest[u - 1] \in Nat /\ Units[u] \in Nat /\ Units[u] > 0
    BY <1>1, <1>10, UnitsAre
  <2>3. (rest[u - 1] \div Units[u]) * Units[u] = rest[u - 1] - (rest[u - 1] % Units[u])
    BY <2>2, Divides
  <2>4. QED
    BY <1>9, <2>1, <2>3
<1>13. rest[5] = 0
  <2>1. rest[5] < 1 /\ rest[5] \in Nat
    BY <1>10, <1>11, UnitsAre
  <2>2. QED
    BY <2>1
<1>14. QED
  BY <1>9, <1>10, <1>11, <1>12, <1>13

LEMMA DurationAdds ==
  ASSUME elapsed \in Nat
  PROVE  DurationAddsUp
<1> DEFINE ms == [u \in DOMAIN Units |-> Compact(elapsed)[u] * Units[u]]
<1>1. PICK rest : /\ rest[0] = elapsed /\ rest[5] = 0 /\ \A u \in 0..5 : rest[u] \in Nat
                  /\ \A u \in 1..5 : rest[u] < Units[u]
                  /\ \A u \in 1..5 : Compact(elapsed)[u] * Units[u] = rest[u - 1] - rest[u]
  BY CompactIs
<1>2. \A u \in 1..5 : ms[u] = rest[u - 1] - rest[u]
  BY <1>1, UnitsAre
<1> HIDE DEF ms
<1>3. ms[1] + ms[2] + ms[3] + ms[4] + ms[5] = elapsed
  <2>1. /\ ms[1] = rest[0] - rest[1] /\ ms[2] = rest[1] - rest[2] /\ ms[3] = rest[2] - rest[3]
        /\ ms[4] = rest[3] - rest[4] /\ ms[5] = rest[4] - rest[5]
    BY <1>2
  <2>2. rest[0] \in Nat /\ rest[1] \in Nat /\ rest[2] \in Nat /\ rest[3] \in Nat /\ rest[4] \in Nat
    BY <1>1
  <2>3. QED
    BY <1>1, <2>1, <2>2
<1>4. ASSUME NEW u \in 2..Len(Units) PROVE ms[u] < Units[u - 1]
  <2>1. u \in 1..5 /\ u - 1 \in 1..5 /\ u \in 0..5 /\ u - 1 \in 0..5
    BY UnitsAre
  <2>2. ms[u] = rest[u - 1] - rest[u] /\ rest[u - 1] \in Nat /\ rest[u] \in Nat /\ rest[u - 1] < Units[u - 1]
        /\ Units[u - 1] \in Nat
    BY <1>1, <1>2, <2>1, UnitsAre
  <2>3. QED
    BY <2>2
<1>5. QED
  BY <1>3, <1>4 DEF DurationAddsUp, ms

-----------------------------------------------------------------------------
DisplaySpec == DisplayInit /\ [][DisplayNext]_display

DisplayOK == label \in Texts /\ command \in Texts /\ elapsed \in Nat

LEMMA DisplayKept == DisplayOK /\ [DisplayNext]_display => DisplayOK'
<1> SUFFICES ASSUME DisplayOK, [DisplayNext]_display PROVE DisplayOK'
  OBVIOUS
<1>1. \A g \in Graphemes : g \in [w : Nat, b : Nat, blank : BOOLEAN]
  BY GraphemesAssumption
<1>2. \A text \in Texts, g \in Graphemes : Append(text, g) \in Texts
  BY <1>1 DEF Texts
<1>3. ASSUME NEW g \in Graphemes, TypeLabel(g) PROVE DisplayOK'
  BY <1>2, <1>3 DEF DisplayOK, TypeLabel
<1>4. ASSUME NEW g \in Graphemes, TypeCommand(g) PROVE DisplayOK'
  BY <1>2, <1>4 DEF DisplayOK, TypeCommand
<1>5. ASSUME NEW d \in Ticks, Tick(d) PROVE DisplayOK'
  BY <1>5, AmountsAssumption DEF DisplayOK, Tick
<1>6. CASE UNCHANGED display
  BY <1>6 DEF DisplayOK, display
<1>7. QED
  BY <1>3, <1>4, <1>5, <1>6 DEF DisplayNext

\* The layout of the summary is right for every text, budget and duration: what
\* ellipsize keeps fits and is as long as it can be, its source index is that of
\* the byte shown, names are padded to one width, and a duration's units are it.
THEOREM LayoutHolds == DisplaySpec => []LayoutIsRight
<1>1. DisplayInit => DisplayOK
  BY DEF DisplayInit, DisplayOK, Texts
<1>2. DisplayOK => LayoutIsRight
  <2> SUFFICES ASSUME DisplayOK PROVE LayoutIsRight
    OBVIOUS
  <2>1. label \in Texts /\ command \in Texts /\ elapsed \in Nat
    BY DEF DisplayOK
  <2>2. \A ind \in Indicators : ind \in Texts
    <3>1. Dot \in [w : Nat, b : Nat, blank : BOOLEAN]
      BY DEF Dot
    <3>2. Ascii \in Texts
      BY <3>1 DEF Ascii, Texts
    <3>3. Unicode \in Texts
      BY DEF Unicode, Texts
    <3>4. <<>> \in Texts
      BY DEF Texts
    <3>5. QED
      BY <3>2, <3>3, <3>4 DEF Indicators
  <2>3. \A c \in Cuts : c.amount \in Nat /\ c.side \in Sides /\ c.ind \in Texts
    BY <2>2, AmountsAssumption DEF Cuts
  <2>4. \A c \in Cuts : /\ CutShape(Cut(c), label)
                        /\ CutCase(Cut(c), label, c.measure, c.amount, c.side, c.ind)
    BY <2>1, <2>3, CutIs DEF Cut
  <2>5. CutFits
    BY <2>1, <2>3, <2>4, CutWithin DEF CutFits
  <2>6. CutIsLongest
    <3>1. ASSUME NEW c \in Cuts PROVE LongestCut(label, c.measure, c.amount, c.side, c.ind, Cut(c))
      BY <2>1, <2>3, <2>4, CutLongest
    <3>2. QED
      BY <3>1 DEF CutIsLongest, LongestCut
  <2>7. CutMapsBack
    <3>1. ASSUME NEW c \in Cuts PROVE MapsBack(label, Cut(c), c.ind)
      BY <2>1, <2>3, <2>4, CutMaps
    <3>2. QED
      BY <3>1 DEF CutMapsBack, MapsBack
  <2>8. NamesAligned /\ DurationAddsUp
    BY <2>1, NamesAre, DurationAdds
  <2>9. QED
    BY <2>5, <2>6, <2>7, <2>8 DEF LayoutIsRight
<1>3. QED
  BY <1>1, <1>2, DisplayKept, PTL DEF DisplaySpec

-----------------------------------------------------------------------------
(* The boxes and the images of local builds.                                *)

FileTexts == {Absent} \cup Versions
Trees == [Files -> FileTexts]

\* The step whose commit an image's tag names.
Owner(t) == IF t[1] = "ephemeral" THEN t[2] ELSE t[1]

ImageRec == [files : Trees, ran : SUBSET Steps, cmd : Nat, raced : BOOLEAN, lost : BOOLEAN,
             fate : {"named", "unnamed", "stuck"}]

ProjectOK ==
  /\ tree \in Trees /\ archive \in Trees
  /\ cmd \in [Steps -> Nat]
  /\ edits \in 0..MaxEdits /\ faults \in 0..MaxFaults

\* A key names its step and what its policy hashed.
KeyOK(s) ==
  build.keys[s] # NoTag =>
    /\ build.keys[s][1] = s
    /\ Policy[s] = "forever" => build.keys[s][3] = <<build.cmds[s]>>
    /\ Policy[s] = "on_change" => build.keys[s][3] = Contents(build.seen)

\* Unless the user came in between, the archive is what the keys were made of.
BuildOK ==
  /\ build = [no |-> build.no, phase |-> build.phase, keys |-> build.keys, seen |-> build.seen,
              cmds |-> build.cmds, unpacked |-> build.unpacked, raced |-> build.raced]
  /\ build.no \in 0..MaxBuilds
  /\ build.phase \in {"rest", "planned", "packing", "running"}
  /\ build.seen \in Trees /\ build.cmds \in [Steps -> Nat]
  /\ build.unpacked \subseteq Files /\ build.raced \in BOOLEAN
  /\ (In("planned") \/ In("packing")) /\ ~build.raced =>
       tree = build.seen /\ \A f \in Files \ build.unpacked : archive[f] = build.seen[f]
  /\ In("running") /\ ~build.raced => archive = build.seen
  /\ \A s \in Steps : KeyOK(s)

\* A tag says truly what its image was made of.
ImageOK(t) ==
  /\ images[t] \in ImageRec
  /\ Owner(t) \in Steps
  /\ images[t].ran \subseteq Ancestors[Owner(t)] \cup {Owner(t)}
  /\ ~images[t].lost => Owner(t) \in images[t].ran
  /\ IsEphemeral(t) /\ images[t].fate = "named" => t \in Outcomes
  /\ t[1] # "ephemeral" =>
       /\ Policy[t[1]] = "forever" => t[3] = <<images[t].cmd>>
       /\ Policy[t[1]] = "on_change" /\ ParentOf[t[1]] = NoStep /\ ~images[t].raced =>
            Contents(images[t].files) = t[3]

\* A file the archive has not got is known by the hit it came with.
Inherited(s) == \E a \in Ancestors[s] : job[a].hit

RunningOK(s) ==
  /\ In("running")
  /\ ParentOf[s] = NoStep => job[s].files = archive /\ job[s].ran = {}
  /\ ParentOf[s] # NoStep => /\ At(ParentOf[s], "passed")
                             /\ job[s].ran = images[job[ParentOf[s]].tag].ran
  /\ \A f \in Files :
       /\ archive[f] # Absent => job[s].files[f] = archive[f]
       /\ archive[f] = Absent /\ job[s].files[f] # Absent => Inherited(s)

PassedOK(s) ==
  /\ In("running")
  /\ job[s].tag = Label(s) /\ job[s].tag \in DOMAIN images
  /\ \A f \in Files :
       archive[f] = Absent /\ images[job[s].tag].files[f] # Absent => job[s].hit \/ Inherited(s)

JobOK(s) ==
  /\ job[s] = [at |-> job[s].at, tag |-> job[s].tag, files |-> job[s].files, ran |-> job[s].ran,
               hit |-> job[s].hit]
  /\ job[s].files \in Trees /\ job[s].ran \subseteq Steps
  /\ job[s].at \in {"waiting", "running", "passed", "failed"}
  /\ job[s].hit => At(s, "passed") /\ build.keys[s] # NoTag
  /\ ~In("running") => At(s, "waiting")
  /\ At(s, "running") => RunningOK(s)
  /\ At(s, "passed") => PassedOK(s)

IInv ==
  /\ ProjectOK /\ BuildOK
  /\ images = [t \in DOMAIN images |-> images[t]]
  /\ \A t \in DOMAIN images : ImageOK(t)
  /\ job = [s \in Steps |-> job[s]]
  /\ \A s \in Steps : JobOK(s)

-----------------------------------------------------------------------------
(* Ancestors                                                                *)

\* A root builds upon nothing; another step upon its parent and what that
\* builds upon.
LEMMA AncestorsAre ==
  ASSUME NEW s \in Steps
  PROVE  /\ Ancestors[s] \subseteq Steps
         /\ ParentOf[s] = NoStep => Ancestors[s] = {}
         /\ ParentOf[s] # NoStep =>
              ParentOf[s] \in Ancestors[s] /\ Ancestors[ParentOf[s]] \subseteq Ancestors[s]
<1> DEFINE Closed(S) == \A a \in S : ParentOf[a] \in S \cup {NoStep}
           Up(x) == {a \in Steps : \A S \in SUBSET Steps :
                       Closed(S) /\ ParentOf[x] \in S \cup {NoStep} => a \in S}
<1>1. \A x \in Steps : Ancestors[x] = Up(x)
  BY DEF Ancestors
<1>2. Ancestors[s] \subseteq Steps
  BY <1>1
<1>3. ASSUME ParentOf[s] = NoStep PROVE Ancestors[s] = {}
  <2>1. Closed({}) /\ {} \in SUBSET Steps
    OBVIOUS
  <2>2. \A a \in Up(s) : a \in {}
    BY <2>1, <1>3
  <2> QED BY <2>2, <1>1
<1>4. ASSUME ParentOf[s] # NoStep
      PROVE  ParentOf[s] \in Ancestors[s] /\ Ancestors[ParentOf[s]] \subseteq Ancestors[s]
  <2>1. ParentOf[s] \in Steps
    BY <1>4, ProjectAssumption
  <2>2. ParentOf[s] \in Up(s)
    BY <2>1, <1>4
  <2>3. ASSUME NEW a \in Up(ParentOf[s]) PROVE a \in Up(s)
    <3>1. ASSUME NEW S \in SUBSET Steps, Closed(S), ParentOf[s] \in S \cup {NoStep} PROVE a \in S
      <4>1. ParentOf[s] \in S
        BY <3>1, <1>4
      <4>2. ParentOf[ParentOf[s]] \in S \cup {NoStep}
        BY <3>1, <4>1
      <4> QED BY <2>3, <3>1, <4>2
    <3> QED BY <3>1, <2>3
  <2> HIDE DEF Up
  <2> QED BY <2>1, <2>2, <2>3, <1>1
<1> QED BY <1>2, <1>3, <1>4

-----------------------------------------------------------------------------
(* Keys.  Tags is defined by recursion along builds_in: that there is such  *)
(* a function takes that builds_in has no cycle.                            *)

KeyOf(texts, g, s) ==
  IF Policy[s] = "none" THEN NoTag
  ELSE <<s, IF ParentOf[s] = NoStep THEN <<"scratch">> ELSE g[ParentOf[s]],
         PolicyResolution(s, texts)>>

\* A function that has the keys of some steps, and of those they build upon.
Attempt(texts, g) ==
  /\ DOMAIN g \subseteq Steps
  /\ \A s \in DOMAIN g : g[s] = KeyOf(texts, g, s) /\ ParentOf[s] \in DOMAIN g \cup {NoStep}

LEMMA AttemptsAgree ==
  ASSUME NEW texts, NEW g, NEW h, Attempt(texts, g), Attempt(texts, h)
  PROVE  \A s \in DOMAIN g \cap DOMAIN h : g[s] = h[s]
<1> DEFINE Bad == {s \in DOMAIN g \cap DOMAIN h : g[s] # h[s]}
<1> SUFFICES ASSUME Bad # {} PROVE FALSE
  OBVIOUS
<1>1. Bad \in SUBSET Steps
  BY DEF Attempt
<1>2. PICK s \in Bad : ParentOf[s] \notin Bad
  BY <1>1, AcyclicAssumption
<1>3. g[s] = KeyOf(texts, g, s) /\ h[s] = KeyOf(texts, h, s)
  BY DEF Attempt
<1>4. ParentOf[s] # NoStep => g[ParentOf[s]] = h[ParentOf[s]]
  BY <1>2 DEF Attempt
<1>5. KeyOf(texts, g, s) = KeyOf(texts, h, s)
  BY <1>4 DEF KeyOf
<1> QED BY <1>3, <1>5

LEMMA AttemptExists ==
  ASSUME NEW texts, NEW t \in Steps
  PROVE  \E g : Attempt(texts, g) /\ t \in DOMAIN g
<1> DEFINE Bad == {s \in Steps : ~\E g : Attempt(texts, g) /\ s \in DOMAIN g}
<1> SUFFICES ASSUME Bad # {} PROVE FALSE
  OBVIOUS
<1>1. PICK s \in Bad : ParentOf[s] \notin Bad
  BY AcyclicAssumption
<1>2. \E g : Attempt(texts, g) /\ ParentOf[s] \in DOMAIN g \cup {NoStep}
  <2>1. CASE ParentOf[s] = NoStep
    <3>1. Attempt(texts, [x \in {} |-> 0])
      BY DEF Attempt
    <3> QED BY <3>1, <2>1
  <2>2. CASE ParentOf[s] # NoStep
    <3>1. ParentOf[s] \in Steps
      BY <2>2, ProjectAssumption
    <3> QED BY <3>1, <1>1
  <2> QED BY <2>1, <2>2
<1>3. PICK g : Attempt(texts, g) /\ ParentOf[s] \in DOMAIN g \cup {NoStep}
  BY <1>2
<1>4. s \notin DOMAIN g
  BY <1>3
<1> DEFINE h == [x \in DOMAIN g \cup {s} |-> IF x = s THEN KeyOf(texts, g, s) ELSE g[x]]
<1>5. DOMAIN h \subseteq Steps /\ s \in DOMAIN h
  BY <1>3 DEF Attempt
<1>6. ASSUME NEW x \in DOMAIN h
      PROVE  h[x] = KeyOf(texts, h, x) /\ ParentOf[x] \in DOMAIN h \cup {NoStep}
  <2>1. h[x] = KeyOf(texts, g, x) /\ ParentOf[x] \in DOMAIN g \cup {NoStep}
    BY <1>3 DEF Attempt
  <2>2. ParentOf[x] # NoStep => h[ParentOf[x]] = g[ParentOf[x]]
    BY <2>1, <1>4
  <2>3. KeyOf(texts, g, x) = KeyOf(texts, h, x)
    BY <2>2 DEF KeyOf
  <2> QED BY <2>1, <2>3
<1>7. Attempt(texts, h)
  BY <1>5, <1>6 DEF Attempt
<1> QED BY <1>7, <1>5

\* The keys are what the recursion says.
LEMMA TagsAre ==
  ASSUME NEW texts, NEW t \in Steps
  PROVE  Tags(texts)[t] = KeyOf(texts, Tags(texts), t)
<1> DEFINE G(s) == CHOOSE g : Attempt(texts, g) /\ s \in DOMAIN g
           F == [s \in Steps |-> G(s)[s]]
<1>1. \A s \in Steps : Attempt(texts, G(s)) /\ s \in DOMAIN G(s)
  BY AttemptExists
<1> HIDE DEF G
<1>2. ASSUME NEW s \in Steps PROVE F[s] = KeyOf(texts, F, s)
  <2>1. G(s)[s] = KeyOf(texts, G(s), s) /\ ParentOf[s] \in DOMAIN G(s) \cup {NoStep}
    BY <1>1 DEF Attempt
  <2>2. ASSUME ParentOf[s] # NoStep PROVE F[ParentOf[s]] = G(s)[ParentOf[s]]
    <3>1. ParentOf[s] \in Steps /\ ParentOf[s] \in DOMAIN G(s)
      BY <2>1, <2>2, ProjectAssumption
    <3>2. ParentOf[s] \in DOMAIN G(ParentOf[s])
      BY <3>1, <1>1
    <3>3. G(ParentOf[s])[ParentOf[s]] = G(s)[ParentOf[s]]
      BY <1>1, <3>1, <3>2, AttemptsAgree
    <3> QED BY <3>1, <3>3
  <2>3. KeyOf(texts, G(s), s) = KeyOf(texts, F, s)
    BY <2>2 DEF KeyOf
  <2> QED BY <2>1, <2>3
<1>3. F = [s \in Steps |-> KeyOf(texts, F, s)]
  <2> DEFINE H == [s \in Steps |-> KeyOf(texts, F, s)]
  <2>1. \A s \in Steps : F[s] = H[s]
    BY <1>2
  <2> QED BY <2>1
<1>4. \E f : f = [s \in Steps |-> KeyOf(texts, f, s)]
  BY <1>3
<1>5. Tags(texts) = CHOOSE f : f = [s \in Steps |-> KeyOf(texts, f, s)]
  BY DEF Tags, KeyOf
<1>6. Tags(texts) = [s \in Steps |-> KeyOf(texts, Tags(texts), s)]
  BY <1>4, <1>5
<1> QED BY <1>6

\* What a key says of its step.
LEMMA KeysPlanned ==
  ASSUME NEW texts, NEW s \in Steps, Tags(texts)[s] # NoTag
  PROVE  /\ Tags(texts)[s][1] = s
         /\ Policy[s] = "forever" => Tags(texts)[s][3] = <<cmd[s]>>
         /\ Policy[s] = "on_change" => Tags(texts)[s][3] = Contents(texts)
<1> DEFINE k == Tags(texts)[s]
           up == IF ParentOf[s] = NoStep THEN <<"scratch">> ELSE Tags(texts)[ParentOf[s]]
           what == PolicyResolution(s, texts)
<1>1. Policy[s] # "none" /\ k = <<s, up, what>>
  BY TagsAre DEF KeyOf
<1>2. Policy[s] = "forever" => what = <<cmd[s]>>
  BY DEF PolicyResolution
<1>3. Policy[s] = "on_change" => what = Contents(texts)
  BY DEF PolicyResolution
<1> HIDE DEF up, what
<1>4. k[1] = s /\ k[3] = what
  BY <1>1
<1> QED BY <1>2, <1>3, <1>4

\* The label a step's image gets is its own.
LEMMA LabelIsOwn ==
  ASSUME IInv, NEW s \in Steps
  PROVE  /\ Owner(Label(s)) = s
         /\ build.keys[s] # NoTag => Label(s) = build.keys[s] /\ Label(s)[1] = s
         /\ build.keys[s] = NoTag => Label(s)[1] = "ephemeral"
<1>1. KeyOK(s)
  BY DEF IInv, BuildOK
<1> DEFINE e == <<"ephemeral", s, build.no>>
<1>2. e[1] = "ephemeral" /\ e[2] = s
  OBVIOUS
<1>3. s # "ephemeral"
  BY EphemeralAssumption
<1> HIDE DEF e
<1>4. Label(s) = IF build.keys[s] = NoTag THEN e ELSE build.keys[s]
  BY DEF Label, e
<1> QED BY <1>1, <1>2, <1>3, <1>4 DEF Owner, KeyOK

-----------------------------------------------------------------------------
(* One step moves                                                           *)

\* The other steps stand as they stood: what a step has read of the images of
\* those it builds upon is still there.
LEMMA OthersKept ==
  ASSUME IInv, NEW s \in Steps, NEW rec, ~At(s, "passed"), Move(s, rec),
         UNCHANGED <<build, archive>>,
         DOMAIN images \subseteq DOMAIN images',
         \A t \in DOMAIN images : t # Label(s) => images'[t] = images[t]
  PROVE  /\ job' = [x \in Steps |-> job'[x]] /\ job'[s] = rec
         /\ \A x \in Steps : Inherited(x) => Inherited(x)'
         /\ \A x \in Steps \ {s} : job'[x] = job[x] /\ JobOK(x)'
         /\ Outcomes \subseteq Outcomes'
<1>1. job' = [x \in Steps |-> IF x = s THEN rec ELSE job[x]]
  BY DEF IInv, Move
<1>2. job' = [x \in Steps |-> job'[x]]
  BY <1>1
<1>3. job'[s] = rec /\ \A x \in Steps \ {s} : job'[x] = job[x]
  BY <1>1
<1>4. ASSUME NEW x \in Steps, Inherited(x) PROVE Inherited(x)'
  <2>1. PICK a \in Ancestors[x] : job[a].hit
    BY <1>4 DEF Inherited
  <2>2. a \in Steps
    BY AncestorsAre
  <2>3. a # s
    BY <2>1, <2>2 DEF IInv, JobOK
  <2> QED BY <2>1, <2>2, <2>3, <1>3 DEF Inherited
<1>5. ASSUME NEW x \in Steps \ {s}, At(x, "passed")
      PROVE  At(x, "passed")' /\ images'[job'[x].tag] = images[job[x].tag] /\ PassedOK(x)'
  <2>1. PassedOK(x) /\ JobOK(x)
    BY <1>5 DEF IInv, JobOK
  <2>2. Label(x) # Label(s)
    BY LabelIsOwn
  <2>3. images'[job'[x].tag] = images[job[x].tag]
    BY <2>1, <2>2, <1>3 DEF PassedOK
  <2>4. Label(x)' = Label(x) /\ In("running")' = In("running")
    BY DEF Label, In
  <2>5. PassedOK(x)'
    BY <2>1, <2>3, <2>4, <1>3, <1>4 DEF PassedOK
  <2> QED BY <2>3, <2>5, <1>3, <1>5 DEF At
<1>6. ASSUME NEW x \in Steps \ {s}, At(x, "running") PROVE RunningOK(x)'
  <2>1. RunningOK(x)
    BY <1>6 DEF IInv, JobOK
  <2>2. ASSUME ParentOf[x] # NoStep
        PROVE  /\ At(ParentOf[x], "passed")'
               /\ images'[job'[ParentOf[x]].tag] = images[job[ParentOf[x]].tag]
    <3>1. ParentOf[x] \in Steps /\ At(ParentOf[x], "passed")
      BY <2>1, <2>2, ProjectAssumption DEF RunningOK
    <3>2. ParentOf[x] # s
      BY <3>1
    <3> QED BY <3>1, <3>2, <1>5
  <2>3. In("running")'
    BY <2>1 DEF RunningOK, In
  <2> QED BY <2>1, <2>2, <2>3, <1>3, <1>4 DEF RunningOK
<1>7. ASSUME NEW x \in Steps \ {s} PROVE JobOK(x)'
  <2>1. JobOK(x)
    BY DEF IInv
  <2>2. \A where : At(x, where)' = At(x, where) /\ \A p : In(p)' = In(p)
    BY <1>3 DEF At, In
  <2> QED BY <2>1, <2>2, <1>3, <1>5, <1>6 DEF JobOK
<1>8. ASSUME NEW t \in Outcomes PROVE t \in Outcomes'
  <2>1. PICK x \in Steps : At(x, "passed") /\ job[x].tag = t /\ IsEphemeral(t)
    BY DEF Outcomes
  <2>2. At(x, "passed")' /\ job'[x].tag = t
    BY <2>1, <1>3 DEF At
  <2> QED BY <2>1, <2>2 DEF Outcomes
<1> QED BY <1>2, <1>3, <1>4, <1>7, <1>8

\* In a box have run the commands of what its step builds upon.
LEMMA RanIsOwn ==
  ASSUME IInv, NEW s \in Steps, At(s, "running")
  PROVE  /\ job[s].ran \subseteq Ancestors[s]
         /\ ParentOf[s] # NoStep /\ ~images[job[ParentOf[s]].tag].lost => ParentOf[s] \in job[s].ran
<1>1. RunningOK(s)
  BY DEF IInv, JobOK
<1>2. CASE ParentOf[s] = NoStep
  BY <1>1, <1>2, AncestorsAre DEF RunningOK
<1>3. CASE ParentOf[s] # NoStep
  <2> DEFINE p == ParentOf[s]
             t == job[p].tag
  <2>1. p \in Steps /\ At(p, "passed") /\ job[s].ran = images[t].ran
    BY <1>1, <1>3, ProjectAssumption DEF RunningOK
  <2>2. t = Label(p) /\ t \in DOMAIN images
    BY <2>1 DEF IInv, JobOK, PassedOK
  <2>3. Owner(t) = p
    BY <2>1, <2>2, LabelIsOwn
  <2>4. ImageOK(t)
    BY <2>2 DEF IInv
  <2>5. images[t].ran \subseteq Ancestors[p] \cup {p} /\ (~images[t].lost => p \in images[t].ran)
    BY <2>3, <2>4 DEF ImageOK
  <2>6. p \in Ancestors[s] /\ Ancestors[p] \subseteq Ancestors[s]
    BY <1>3, AncestorsAre
  <2> QED BY <2>1, <2>5, <2>6
<1> QED BY <1>2, <1>3

-----------------------------------------------------------------------------
(* The user edits, a build plans, packs and ends                            *)

LEMMA InitHolds == Init => IInv
<1> SUFFICES ASSUME Init PROVE IInv
  OBVIOUS
<1>1. ProjectOK
  BY ProjectAssumption DEF Init, ProjectOK, Trees, FileTexts, Empty
<1>2. BuildOK
  <2>1. build = Rest(0)
    BY DEF Init
  <2>2. \A s \in Steps : KeyOK(s)
    BY <2>1 DEF Rest, KeyOK
  <2> QED BY <2>1, <2>2, <1>1, ProjectAssumption DEF Rest, BuildOK, In, Trees, FileTexts, Empty, ProjectOK
<1>3. images = [t \in DOMAIN images |-> images[t]] /\ DOMAIN images = {}
  BY DEF Init
<1>4. job = [s \in Steps |-> job[s]]
  BY DEF Init, Nowhere
<1>5. \A s \in Steps : JobOK(s)
  BY DEF Init, Nowhere, Idle, JobOK, At, Empty, Trees, FileTexts
<1> QED BY <1>1, <1>2, <1>3, <1>4, <1>5 DEF IInv

\* Steps and images stand when the build's phase, keys and archive do.
LEMMA StepsStand ==
  ASSUME IInv, UNCHANGED <<job, images, archive>>,
         build'.phase = build.phase, build'.keys = build.keys, build'.no = build.no
  PROVE  /\ images' = [t \in DOMAIN images' |-> images'[t]]
         /\ \A t \in DOMAIN images' : ImageOK(t)'
         /\ job' = [s \in Steps |-> job'[s]]
         /\ \A s \in Steps : JobOK(s)'
<1>1. \A p : In(p)' = In(p)
  BY DEF In
<1>2. \A t \in DOMAIN images' : ImageOK(t)'
  <2>1. Outcomes' = Outcomes
    BY DEF Outcomes, At
  <2> QED BY <2>1 DEF IInv, ImageOK
<1>3. ASSUME NEW s \in Steps PROVE JobOK(s)'
  <2>1. JobOK(s)
    BY DEF IInv
  <2>2. Label(s)' = Label(s)
    BY DEF Label
  <2>3. \A x \in Steps : Inherited(x)' = Inherited(x)
    BY DEF Inherited
  <2>4. \A x, where : At(x, where)' = At(x, where)
    BY DEF At
  <2>5. RunningOK(s) => RunningOK(s)'
    BY <1>1, <2>3, <2>4 DEF RunningOK
  <2>6. PassedOK(s) => PassedOK(s)'
    BY <1>1, <2>2, <2>3, <2>4 DEF PassedOK
  <2> QED BY <1>1, <2>1, <2>4, <2>5, <2>6 DEF JobOK
<1> QED BY <1>2, <1>3 DEF IInv

LEMMA EditKeeps ==
  ASSUME IInv, Edited, tree' \in Trees, cmd' \in [Steps -> Nat] PROVE IInv'
<1> DEFINE raced == build.raced \/ In("planned") \/ In("packing")
<1>1. ProjectOK'
  BY ProjectAssumption DEF IInv, ProjectOK, Edited
<1>2. build' = [build EXCEPT !.raced = raced]
  BY DEF Edited
<1>3. raced \in BOOLEAN /\ (~raced => ~build.raced /\ ~In("planned") /\ ~In("packing"))
  BY DEF IInv, BuildOK
<1> HIDE DEF raced
<1>4. build' = [no |-> build.no, phase |-> build.phase, keys |-> build.keys, seen |-> build.seen,
                cmds |-> build.cmds, unpacked |-> build.unpacked, raced |-> raced]
  BY <1>2 DEF IInv, BuildOK
<1>5. BuildOK'
  <2>1. \A s \in Steps : KeyOK(s)'
    BY <1>4 DEF IInv, BuildOK, KeyOK
  <2> QED BY <1>3, <1>4, <2>1 DEF IInv, BuildOK, In, Edited
<1>6. /\ build'.phase = build.phase /\ build'.keys = build.keys /\ build'.no = build.no
      /\ UNCHANGED <<job, images, archive>>
  BY <1>4 DEF Edited
<1> QED BY <1>1, <1>5, <1>6, StepsStand DEF IInv

\* A build that is not running has no step that passed, and no outcome.
LEMMA NoOutcomes == IInv /\ ~In("running") => Outcomes = {}
BY DEF IInv, JobOK, Outcomes, At

\* A build that is not running has no step under way.
LEMMA NotRunning ==
  ASSUME IInv, archive' \in Trees, UNCHANGED <<outside, images>>, ~In("running"),
         \A s \in Steps : job'[s] = Idle \/ job'[s] = job[s],
         job' = [s \in Steps |-> job'[s]], BuildOK'
  PROVE  IInv'
<1>1. ProjectOK'
  BY DEF IInv, ProjectOK, outside, project
<1>2. \A t \in DOMAIN images' : ImageOK(t)'
  BY NoOutcomes DEF IInv, ImageOK
<1>3. \A s \in Steps : JobOK(s)'
  BY DEF IInv, JobOK, Idle, At, Empty, Trees, FileTexts
<1> QED BY <1>1, <1>2, <1>3 DEF IInv

LEMMA PlanKeeps == ASSUME IInv, Plan PROVE IInv'
<1>1. build' = [no |-> build.no + 1, phase |-> "planned", keys |-> Tags(tree), seen |-> tree,
                cmds |-> cmd, unpacked |-> Files, raced |-> FALSE]
  BY DEF Plan
<1>2. \A s \in Steps : KeyOK(s)'
  BY <1>1, KeysPlanned DEF KeyOK
<1>3. UNCHANGED <<outside, images>> /\ archive' = Empty /\ job' = Nowhere /\ ~In("running")
  BY DEF Plan, In
<1>4. BuildOK'
  <2>1. build.no + 1 \in 0..MaxBuilds
    BY ProjectAssumption DEF IInv, BuildOK, Plan
  <2>2. tree \in Trees /\ cmd \in [Steps -> Nat] /\ tree' = tree
    BY <1>3 DEF IInv, ProjectOK, outside, project
  <2> QED BY <1>1, <1>2, <2>1, <2>2 DEF BuildOK, In
<1>5. archive' \in Trees
  BY <1>3 DEF Empty, Trees, FileTexts
<1>6. job' = [s \in Steps |-> job'[s]] /\ \A s \in Steps : job'[s] = Idle
  BY <1>3 DEF Nowhere
<1> QED BY <1>3, <1>4, <1>5, <1>6, NotRunning

LEMMA PackKeeps ==
  ASSUME IInv, NEW f \in Files, Pack(f) PROVE IInv'
<1> DEFINE left == build.unpacked \ {f}
           phase == IF build.unpacked = {f} THEN "running" ELSE "packing"
<1>1. build' = [no |-> build.no, phase |-> phase, keys |-> build.keys, seen |-> build.seen,
                cmds |-> build.cmds, unpacked |-> left, raced |-> build.raced]
  BY DEF IInv, BuildOK, Pack
<1>2. /\ archive' = [archive EXCEPT ![f] = tree[f]] /\ UNCHANGED <<outside, job, images>>
      /\ In("planned") \/ In("packing")
  BY DEF Pack
<1>3. tree \in Trees /\ archive \in Trees /\ tree[f] \in FileTexts
  BY DEF IInv, ProjectOK, Trees
<1>4. archive' \in Trees
  BY <1>2, <1>3 DEF Trees
<1>5. ~In("running")
  BY <1>2 DEF In
<1>6. ASSUME ~build.raced
      PROVE  /\ tree' = build'.seen
             /\ \A g \in Files \ left : archive'[g] = build'.seen[g]
             /\ phase = "running" => archive' = build'.seen
  <2>1. tree = build.seen /\ \A g \in Files \ build.unpacked : archive[g] = build.seen[g]
    BY <1>2, <1>6 DEF IInv, BuildOK
  <2>2. \A g \in Files \ left : archive'[g] = build.seen[g]
    BY <1>2, <1>3, <2>1 DEF Trees
  <2>3. phase = "running" => \A g \in Files : archive'[g] = build.seen[g]
    BY <2>2
  <2>4. phase = "running" => archive' = build.seen
    BY <2>3, <1>4 DEF IInv, BuildOK, Trees
  <2> QED BY <1>1, <1>2, <2>1, <2>2, <2>4 DEF outside, project
<1>7. phase \in {"running", "packing"} /\ left \subseteq Files
  BY DEF IInv, BuildOK
<1> HIDE DEF left, phase
<1>8. \A s \in Steps : KeyOK(s)'
  BY <1>1 DEF IInv, BuildOK, KeyOK
<1>9. BuildOK'
  BY <1>1, <1>6, <1>7, <1>8 DEF IInv, BuildOK, In
<1>10. job' = [s \in Steps |-> job'[s]]
  BY <1>2 DEF IInv
<1> QED BY <1>2, <1>4, <1>5, <1>9, <1>10, NotRunning

LEMMA RestIsOK ==
  ASSUME IInv, build' = Rest(build.no), UNCHANGED project PROVE BuildOK'
<1>1. build' = [no |-> build.no, phase |-> "rest", keys |-> [s \in Steps |-> NoTag],
                seen |-> Empty, cmds |-> cmd, unpacked |-> {}, raced |-> FALSE]
  BY DEF Rest
<1>2. \A s \in Steps : KeyOK(s)'
  BY <1>1 DEF KeyOK
<1>3. Empty \in Trees /\ cmd \in [Steps -> Nat]
  BY DEF IInv, ProjectOK, Empty, Trees, FileTexts
<1> QED BY <1>1, <1>2, <1>3 DEF IInv, BuildOK, In

LEMMA PackFailsKeeps == ASSUME IInv, PackFails PROVE IInv'
<1>1. ~In("running") /\ UNCHANGED <<outside, archive, job, images>> /\ BuildOK'
  BY RestIsOK DEF PackFails, In, outside
<1>2. archive' \in Trees /\ job' = [s \in Steps |-> job'[s]]
  BY <1>1 DEF IInv, ProjectOK
<1> QED BY <1>1, <1>2, NotRunning

\* Marking images changes nothing else of them.
LEMMA MarkedIs ==
  ASSUME IInv, NEW S, NEW fate \in {"unnamed", "stuck"}, NEW t \in DOMAIN images
  PROVE  LET image == Marked(S, fate)[t] IN
           /\ image \in ImageRec
           /\ image.files = images[t].files /\ image.ran = images[t].ran /\ image.cmd = images[t].cmd
           /\ image.raced = images[t].raced /\ image.lost = images[t].lost
           /\ image.fate = IF t \in S THEN fate ELSE images[t].fate
<1>1. images[t] \in ImageRec
  BY DEF IInv, ImageOK
<1>2. Marked(S, fate)[t] = IF t \in S THEN [images[t] EXCEPT !.fate = fate] ELSE images[t]
  BY DEF Marked
<1>3. CASE t \in S
  <2> DEFINE image == [images[t] EXCEPT !.fate = fate]
  <2>1. image = [files |-> images[t].files, ran |-> images[t].ran, cmd |-> images[t].cmd,
                 raced |-> images[t].raced, lost |-> images[t].lost, fate |-> fate]
    BY <1>1 DEF ImageRec
  <2>2. image \in ImageRec
    BY <1>1, <2>1 DEF ImageRec
  <2> QED BY <1>2, <1>3, <2>1, <2>2
<1>4. CASE t \notin S
  BY <1>1, <1>2, <1>4
<1> QED BY <1>3, <1>4

\* A build is over: the images its outcomes name are gone, or known to nobody.
LEMMA BuildOverKeeps ==
  ASSUME IInv, BuildOver, faults' \in 0..MaxFaults,
         NEW S, NEW fate \in {"unnamed", "stuck"}, NEW T \in SUBSET DOMAIN images,
         Outcomes \cap T \subseteq S,
         images' = [t \in T |-> Marked(S, fate)[t]]
  PROVE  IInv'
<1>1. BuildOK' /\ UNCHANGED project /\ archive' = Empty /\ job' = Nowhere
  BY RestIsOK DEF BuildOver
<1>2. ProjectOK'
  BY <1>1 DEF IInv, ProjectOK, project, Empty, Trees, FileTexts
<1>3. ASSUME NEW t \in DOMAIN images' PROVE ImageOK(t)'
  <2>1. t \in T /\ t \in DOMAIN images /\ images'[t] = Marked(S, fate)[t]
    OBVIOUS
  <2>2. ImageOK(t)
    BY <2>1 DEF IInv
  <2>3. /\ images'[t] \in ImageRec
        /\ images'[t].files = images[t].files /\ images'[t].ran = images[t].ran
        /\ images'[t].cmd = images[t].cmd
        /\ images'[t].raced = images[t].raced /\ images'[t].lost = images[t].lost
        /\ images'[t].fate = IF t \in S THEN fate ELSE images[t].fate
    BY <2>1, MarkedIs
  <2>4. IsEphemeral(t) => images'[t].fate # "named"
    BY <2>1, <2>2, <2>3 DEF ImageOK
  <2> QED BY <2>2, <2>3, <2>4 DEF ImageOK, IsEphemeral
<1>4. job' = [s \in Steps |-> job'[s]] /\ \A s \in Steps : job'[s] = Idle
  BY <1>1 DEF Nowhere
<1>5. \A s \in Steps : JobOK(s)'
  BY <1>4 DEF JobOK, Idle, At, Empty, Trees, FileTexts
<1>6. images' = [t \in DOMAIN images' |-> images'[t]]
  OBVIOUS
<1> QED BY <1>1, <1>2, <1>3, <1>4, <1>5, <1>6 DEF IInv

LEMMA FinishKeeps == ASSUME IInv, Finish PROVE IInv'
<1>1. PICK stuck \in SUBSET Outcomes :
        /\ images' = Restrict(Marked(stuck, "stuck"), DOMAIN images \ (Outcomes \ stuck))
        /\ Faulty(Cardinality(stuck))
  BY DEF Finish
<1> DEFINE T == DOMAIN images \ (Outcomes \ stuck)
<1>2. images' = [t \in T |-> Marked(stuck, "stuck")[t]]
  BY <1>1 DEF Restrict
<1>3. BuildOver /\ faults' \in 0..MaxFaults
  BY <1>1 DEF Finish, Faulty
<1>4. T \in SUBSET DOMAIN images /\ Outcomes \cap T \subseteq stuck
  OBVIOUS
<1> HIDE DEF T
<1> QED BY <1>2, <1>3, <1>4, BuildOverKeeps

LEMMA KilledKeeps == ASSUME IInv, Killed PROVE IInv'
<1>1. images' = Marked(Outcomes, "unnamed") /\ BuildOver /\ faults' \in 0..MaxFaults
  BY DEF Killed, Faulty
<1>2. images' = [t \in DOMAIN images |-> Marked(Outcomes, "unnamed")[t]]
  BY <1>1 DEF Marked
<1> QED BY <1>1, <1>2, BuildOverKeeps

-----------------------------------------------------------------------------
(* A step's box                                                             *)

\* A step's record with its place set anew.
LEMMA IdleIs ==
  /\ [Idle EXCEPT !.at = "failed"] =
       [at |-> "failed", tag |-> NoTag, files |-> Empty, ran |-> {}, hit |-> FALSE]
  /\ \A t : [Idle EXCEPT !.at = "passed", !.tag = t] =
              [at |-> "passed", tag |-> t, files |-> Empty, ran |-> {}, hit |-> FALSE]
<1> DEFINE x == Idle
           e == Empty
           n == NoTag
           no == FALSE
           y == [x EXCEPT !.at = "passed"]
<1>1. x = [at |-> "waiting", tag |-> n, files |-> e, ran |-> {}, hit |-> no]
  BY DEF Idle
<1> HIDE DEF x, e, n, no
<1>2. [x EXCEPT !.at = "failed"] = [at |-> "failed", tag |-> n, files |-> e, ran |-> {}, hit |-> no]
  BY <1>1
<1>3. y = [at |-> "passed", tag |-> n, files |-> e, ran |-> {}, hit |-> no]
  BY <1>1
<1> HIDE DEF y
<1>4. \A t : [y EXCEPT !.tag = t] = [at |-> "passed", tag |-> t, files |-> e, ran |-> {}, hit |-> no]
  BY <1>3
<1> QED BY <1>2, <1>4 DEF x, e, n, no, y

\* A step that moves and tags no image.
LEMMA MoveKeeps ==
  ASSUME IInv, NEW s \in Steps, NEW rec, ~At(s, "passed"), Move(s, rec),
         UNCHANGED <<outside, build, archive, images>>, JobOK(s)'
  PROVE  IInv'
<1>1. /\ job' = [x \in Steps |-> job'[x]]
      /\ \A x \in Steps \ {s} : JobOK(x)'
      /\ Outcomes \subseteq Outcomes'
  BY OthersKept
<1>3. \A t \in DOMAIN images' : ImageOK(t)'
  BY <1>1 DEF IInv, ImageOK
<1>4. ProjectOK'
  BY DEF IInv, ProjectOK, outside, project
<1>5. BuildOK'
  BY DEF IInv, BuildOK, KeyOK, In, outside, project
<1> QED BY <1>1, <1>3, <1>4, <1>5 DEF IInv

\* A step that is ready has a parent that passed.
LEMMA ReadyIs ==
  ASSUME NEW s \in Steps, Ready(s)
  PROVE  In("running") /\ At(s, "waiting") /\ ~At(s, "passed")
BY DEF Ready, At

LEMMA HitKeeps == ASSUME IInv, NEW s \in Steps, Hit(s) PROVE IInv'
<1> DEFINE rec == [job[s] EXCEPT !.at = "passed", !.tag = build.keys[s], !.hit = TRUE]
<1>1. Move(s, rec) /\ UNCHANGED <<outside, build, archive, images>> /\ Ready(s) /\ Cached(s)
  BY DEF Hit
<1>2. JobOK(s)
  BY DEF IInv
<1>3. rec = [at |-> "passed", tag |-> build.keys[s], files |-> job[s].files, ran |-> job[s].ran,
             hit |-> TRUE]
  <2> DEFINE x == [job[s] EXCEPT !.at = "passed"]
             y == [x EXCEPT !.tag = build.keys[s]]
  <2>1. x = [at |-> "passed", tag |-> job[s].tag, files |-> job[s].files, ran |-> job[s].ran,
             hit |-> job[s].hit]
    BY <1>2 DEF JobOK
  <2> HIDE DEF x
  <2>2. y = [at |-> "passed", tag |-> build.keys[s], files |-> job[s].files, ran |-> job[s].ran,
             hit |-> job[s].hit]
    BY <2>1
  <2> HIDE DEF y
  <2> DEFINE yes == TRUE
  <2> HIDE DEF yes
  <2>3. [y EXCEPT !.hit = yes] =
          [at |-> "passed", tag |-> build.keys[s], files |-> job[s].files, ran |-> job[s].ran,
           hit |-> yes]
    BY <2>2
  <2> QED BY <2>3 DEF x, y, yes
<1> HIDE DEF rec
<1>4. job'[s] = rec
  BY <1>1, ReadyIs, OthersKept
<1>5. Label(s)' = Label(s) /\ Label(s) = build.keys[s]
  BY <1>1, LabelIsOwn DEF Cached, Label
<1>6. In("running")' /\ PassedOK(s)'
  BY <1>1, <1>3, <1>4, <1>5, ReadyIs DEF PassedOK, In, Cached
<1>7. JobOK(s)'
  BY <1>1, <1>2, <1>3, <1>4, <1>6 DEF JobOK, At, Cached
<1> QED BY <1>1, <1>7, ReadyIs, MoveKeeps

\* What the overlay leaves of the image it is laid over.
LEMMA BootedRuns ==
  ASSUME IInv, NEW s \in Steps, Ready(s)
  PROVE  /\ Overlay(s) \in Trees /\ Source(s).ran \subseteq Steps
         /\ ParentOf[s] = NoStep => Overlay(s) = archive /\ Source(s).ran = {}
         /\ ParentOf[s] # NoStep => /\ At(ParentOf[s], "passed")
                                    /\ Source(s).ran = images[job[ParentOf[s]].tag].ran
         /\ \A f \in Files :
              /\ archive[f] # Absent => Overlay(s)[f] = archive[f]
              /\ archive[f] = Absent /\ Overlay(s)[f] # Absent => Inherited(s)
<1>1. archive \in Trees
  BY DEF IInv, ProjectOK
<1>2. \A f \in Files : Overlay(s)[f] = IF archive[f] = Absent THEN Source(s).files[f] ELSE archive[f]
  BY DEF Overlay
<1>3. Overlay(s) = [f \in Files |-> Overlay(s)[f]]
  BY DEF Overlay
<1>4. CASE ParentOf[s] = NoStep
  <2>1. Source(s).ran = {} /\ \A f \in Files : Source(s).files[f] = Absent
    BY <1>4 DEF Source, Empty
  <2>2. \A f \in Files : Overlay(s)[f] = archive[f]
    BY <1>2, <2>1
  <2>3. Overlay(s) = archive
    BY <1>1, <1>3, <2>2 DEF Trees
  <2> QED BY <1>1, <1>4, <2>1, <2>3
<1>5. CASE ParentOf[s] # NoStep
  <2> DEFINE p == ParentOf[s]
             t == job[p].tag
  <2>1. p \in Steps /\ At(p, "passed")
    BY <1>5, ProjectAssumption DEF Ready
  <2>2. PassedOK(p)
    BY <2>1 DEF IInv, JobOK
  <2>3. ImageOK(t)
    BY <2>2 DEF IInv, PassedOK
  <2>4. Source(s) = images[t]
    BY <1>5 DEF Source
  <2>5. images[t].files \in Trees /\ images[t].ran \subseteq Steps
    BY <2>3 DEF ImageOK, ImageRec
  <2>6. Overlay(s) \in Trees
    BY <1>1, <1>2, <1>3, <2>4, <2>5 DEF Trees
  <2>7. ASSUME NEW f \in Files, archive[f] = Absent, Overlay(s)[f] # Absent PROVE Inherited(s)
    <3>1. images[t].files[f] # Absent
      BY <1>2, <2>4, <2>7
    <3>2. job[p].hit \/ Inherited(p)
      BY <2>2, <2>7, <3>1 DEF PassedOK
    <3>3. p \in Ancestors[s] /\ Ancestors[p] \subseteq Ancestors[s]
      BY <1>5, AncestorsAre
    <3> QED BY <3>2, <3>3 DEF Inherited
  <2> QED BY <1>2, <1>5, <2>1, <2>4, <2>5, <2>6, <2>7
<1> QED BY <1>4, <1>5

LEMMA BootKeeps == ASSUME IInv, NEW s \in Steps, Boot(s) PROVE IInv'
<1> DEFINE rec == [job[s] EXCEPT !.at = "running", !.files = Overlay(s), !.ran = Source(s).ran]
<1>1. Move(s, rec) /\ UNCHANGED <<outside, build, archive, images>> /\ Ready(s)
  BY DEF Boot
<1>2. JobOK(s) /\ ~job[s].hit
  BY <1>1, ReadyIs DEF IInv, JobOK
<1>3. rec = [at |-> "running", tag |-> job[s].tag, files |-> Overlay(s), ran |-> Source(s).ran,
             hit |-> job[s].hit]
  <2> DEFINE x == [job[s] EXCEPT !.at = "running"]
             y == [x EXCEPT !.files = Overlay(s)]
  <2>1. x = [at |-> "running", tag |-> job[s].tag, files |-> job[s].files, ran |-> job[s].ran,
             hit |-> job[s].hit]
    BY <1>2 DEF JobOK
  <2> HIDE DEF x
  <2>2. y = [at |-> "running", tag |-> job[s].tag, files |-> Overlay(s), ran |-> job[s].ran,
             hit |-> job[s].hit]
    BY <2>1
  <2> HIDE DEF y
  <2>3. [y EXCEPT !.ran = Source(s).ran] =
          [at |-> "running", tag |-> job[s].tag, files |-> Overlay(s), ran |-> Source(s).ran,
           hit |-> job[s].hit]
    BY <2>2
  <2> QED BY <2>3 DEF x, y
<1> HIDE DEF rec
<1>4. /\ job'[s] = rec
      /\ \A x \in Steps : Inherited(x) => Inherited(x)'
      /\ \A x \in Steps \ {s} : job'[x] = job[x]
  BY <1>1, ReadyIs, OthersKept
<1>5. In("running")'
  BY <1>1, ReadyIs DEF In
<1>6. ParentOf[s] # NoStep => ParentOf[s] \in Steps \ {s}
  BY <1>1, ReadyIs, ProjectAssumption DEF Ready
<1>7. job'[s].files = Overlay(s) /\ job'[s].ran = Source(s).ran
  BY <1>3, <1>4
<1>8. RunningOK(s)'
  <2>1. ParentOf[s] # NoStep => /\ At(ParentOf[s], "passed")'
                                /\ job'[s].ran = images'[job'[ParentOf[s]].tag].ran
    BY <1>1, <1>4, <1>6, <1>7, BootedRuns DEF At
  <2>2. ParentOf[s] = NoStep => job'[s].files = archive' /\ job'[s].ran = {}
    BY <1>1, <1>7, BootedRuns
  <2>3. \A f \in Files :
           /\ archive'[f] # Absent => job'[s].files[f] = archive'[f]
           /\ archive'[f] = Absent /\ job'[s].files[f] # Absent => Inherited(s)'
    BY <1>1, <1>4, <1>7, BootedRuns
  <2> QED BY <1>5, <2>1, <2>2, <2>3 DEF RunningOK
<1>9. JobOK(s)'
  BY <1>1, <1>2, <1>3, <1>4, <1>5, <1>8, BootedRuns DEF JobOK, At
<1> QED BY <1>1, <1>9, ReadyIs, MoveKeeps

LEMMA FailKeeps ==
  ASSUME IInv, NEW s \in Steps, Fails(s) \/ Skip(s) PROVE IInv'
<1> DEFINE rec == [Idle EXCEPT !.at = "failed"]
<1>1. Move(s, rec) /\ UNCHANGED <<outside, build, archive, images>>
  BY DEF Fails, Skip
<1>2. rec = [at |-> "failed", tag |-> NoTag, files |-> Empty, ran |-> {}, hit |-> FALSE]
  BY IdleIs
<1> HIDE DEF rec
<1>3. In("running") /\ ~At(s, "passed")
  BY ReadyIs DEF Fails, Skip, At, IInv, JobOK, RunningOK
<1>4. job'[s] = rec
  BY <1>1, <1>3, OthersKept
<1>5. JobOK(s)'
  BY <1>1, <1>2, <1>3, <1>4 DEF JobOK, At, In, Empty, Trees, FileTexts
<1> QED BY <1>1, <1>3, <1>5, MoveKeeps

\* The label's image is the box that was committed, every other image stays.
LEMMA ImageTagged ==
  ASSUME IInv, NEW s \in Steps, NEW image, images' = Tagged(Label(s), image)
  PROVE  /\ images' = [t \in DOMAIN images' |-> images'[t]]
         /\ DOMAIN images' = DOMAIN images \cup {Label(s)}
         /\ images'[Label(s)] = image
         /\ \A t \in DOMAIN images : t # Label(s) => images'[t] = images[t]
BY DEF Tagged

\* A box is committed, whether its step hears of it or not.
LEMMA CommittedKeeps ==
  ASSUME IInv, NEW s \in Steps, NEW ended \in Endings, NEW fate \in {"named", "unnamed"},
         Committed(s, ended, fate), faults' \in 0..MaxFaults, NEW rec, Move(s, rec),
         \/ rec = [Idle EXCEPT !.at = "passed", !.tag = Label(s)]
         \/ rec = [Idle EXCEPT !.at = "failed"] /\ (fate = "named" => build.keys[s] # NoTag)
  PROVE  IInv'
<1> DEFINE L == Label(s)
           image == Image(s, ended, fate)
           lost == ended = "unheard"
           raced == build.raced
<1>1. ended \in {"well", "unheard"} /\ images' = Tagged(L, image)
  BY DEF Committed, ExitedWell, Endings
<1>2. UNCHANGED <<project, build, archive>> /\ At(s, "running")
  BY DEF Committed
<1>3. JobOK(s) /\ RunningOK(s) /\ ~At(s, "passed")
  BY <1>2 DEF IInv, JobOK, At
<1>4. \/ rec = [at |-> "passed", tag |-> L, files |-> Empty, ran |-> {}, hit |-> FALSE]
      \/ /\ rec = [at |-> "failed", tag |-> NoTag, files |-> Empty, ran |-> {}, hit |-> FALSE]
         /\ fate = "named" => build.keys[s] # NoTag
  <2>1. CASE rec = [Idle EXCEPT !.at = "passed", !.tag = L]
    BY <2>1, IdleIs
  <2>2. CASE rec = [Idle EXCEPT !.at = "failed"] /\ (fate = "named" => build.keys[s] # NoTag)
    BY <2>2, IdleIs
  <2> QED BY <2>1, <2>2
<1>5. /\ images' = [t \in DOMAIN images' |-> images'[t]]
      /\ DOMAIN images' = DOMAIN images \cup {L}
      /\ images'[L] = image
      /\ \A t \in DOMAIN images : t # L => images'[t] = images[t]
  BY <1>1, ImageTagged
<1>6. /\ image.files = job[s].files
      /\ image.ran = IF ended = "well" THEN job[s].ran \cup {s} ELSE job[s].ran
      /\ image.cmd = build.cmds[s]
      /\ image.raced <=> build.raced
      /\ image.lost <=> ended = "unheard"
      /\ image.fate = fate
  BY DEF Image
<1>7. image \in ImageRec
  <2>1. image.ran \subseteq Steps /\ job[s].files \in Trees /\ build.cmds[s] \in Nat
    BY <1>3, <1>6 DEF IInv, BuildOK, JobOK
  <2>2. lost \in BOOLEAN /\ raced \in BOOLEAN
    BY DEF IInv, BuildOK
  <2> DEFINE ran == IF ended = "well" THEN job[s].ran \cup {s} ELSE job[s].ran
  <2>3. ran \subseteq Steps
    BY <2>1, <1>6
  <2> HIDE DEF lost, raced, ran
  <2>4. [files |-> job[s].files, ran |-> ran, cmd |-> build.cmds[s], raced |-> raced, lost |-> lost,
        fate |-> fate] \in ImageRec
    BY <2>1, <2>2, <2>3 DEF ImageRec
  <2> QED BY <2>4 DEF ran, lost, raced, Image
<1> HIDE DEF image
<1>8. \A p : In(p)' = In(p)
  BY <1>2 DEF In
<1>9. In("running")
  BY <1>3 DEF RunningOK
<1>10. /\ job' = [x \in Steps |-> job'[x]] /\ job'[s] = rec
       /\ \A x \in Steps : Inherited(x) => Inherited(x)'
       /\ \A x \in Steps \ {s} : JobOK(x)'
       /\ Outcomes \subseteq Outcomes'
  BY <1>2, <1>3, <1>5, OthersKept
<1>11. ImageOK(L)'
  <2>1. Owner(L) = s
    BY LabelIsOwn
  <2>2. image.ran \subseteq Ancestors[s] \cup {s} /\ (~image.lost => s \in image.ran)
    BY <1>1, <1>2, <1>6, RanIsOwn
  <2>3. ASSUME L[1] # "ephemeral"
        PROVE  /\ Policy[L[1]] = "forever" => L[3] = <<image.cmd>>
               /\ Policy[L[1]] = "on_change" /\ ParentOf[L[1]] = NoStep /\ ~image.raced =>
                    Contents(image.files) = L[3]
    <3>1. L = build.keys[s] /\ L[1] = s /\ build.keys[s] # NoTag
      BY <2>3, LabelIsOwn
    <3>2. KeyOK(s)
      BY DEF IInv, BuildOK
    <3>3. Policy[s] = "forever" => L[3] = <<image.cmd>>
      BY <1>6, <3>1, <3>2 DEF KeyOK
    <3>4. ParentOf[s] = NoStep /\ ~image.raced => image.files = build.seen
      BY <1>3, <1>6, <1>9 DEF RunningOK, IInv, BuildOK
    <3>5. Policy[s] = "on_change" => L[3] = Contents(build.seen)
      BY <3>1, <3>2 DEF KeyOK
    <3> QED BY <3>1, <3>3, <3>4, <3>5
  <2>4. L' = L /\ images'[L] = image
    BY <1>2, <1>5 DEF Label
  <2>5. ASSUME IsEphemeral(L), image.fate = "named" PROVE L \in Outcomes'
    <3>1. build.keys[s] = NoTag
      BY <2>5, LabelIsOwn, EphemeralAssumption DEF IsEphemeral
    <3>2. rec.at = "passed" /\ rec.tag = L
      BY <1>4, <1>6, <2>5, <3>1
    <3> QED BY <1>10, <2>5, <3>2 DEF Outcomes, At
  <2> HIDE DEF L
  <2> QED BY <1>7, <2>1, <2>2, <2>3, <2>4, <2>5 DEF ImageOK
<1>12. \A t \in DOMAIN images' : ImageOK(t)'
  <2> SUFFICES ASSUME NEW t \in DOMAIN images, t # L PROVE ImageOK(t)'
    <3>1. L' = L
      BY <1>2 DEF Label
    <3> QED BY <1>5, <1>11, <3>1
  <2>1. ImageOK(t) /\ images'[t] = images[t]
    BY <1>5 DEF IInv
  <2> QED BY <2>1, <1>10 DEF ImageOK
<1>13. JobOK(s)'
  <2>1. L' = L
    BY <1>2 DEF Label
  <2>2. \A f \in Files : archive[f] = Absent /\ job[s].files[f] # Absent => Inherited(s)
    BY <1>3 DEF RunningOK
  <2>3. rec.at = "passed" => PassedOK(s)'
    BY <1>2, <1>4, <1>5, <1>6, <1>8, <1>9, <1>10, <2>1, <2>2 DEF PassedOK
  <2> QED BY <1>4, <1>8, <1>9, <1>10, <2>3 DEF JobOK, At, Empty, Trees, FileTexts
<1>14. ProjectOK'
  BY <1>2 DEF IInv, ProjectOK, outside, project
<1>15. BuildOK'
  BY <1>2 DEF IInv, BuildOK, KeyOK, In, outside, project
<1> QED BY <1>5, <1>10, <1>12, <1>13, <1>14, <1>15 DEF IInv

LEMMA CommitKeeps == ASSUME IInv, NEW s \in Steps, Commit(s) \/ CommitLost(s) PROVE IInv'
<1>1. CASE Commit(s)
  <2>1. PICK ended \in Endings :
          Committed(s, ended, "named") /\ Faulty(IF ended = "unheard" THEN 1 ELSE 0)
    BY <1>1 DEF Commit
  <2>2. faults' \in 0..MaxFaults
    BY <2>1 DEF Faulty
  <2>3. Move(s, [Idle EXCEPT !.at = "passed", !.tag = Label(s)])
    BY <1>1 DEF Commit
  <2> DEFINE rec == [Idle EXCEPT !.at = "passed", !.tag = Label(s)]
  <2>4. Move(s, rec)
    BY <2>3
  <2>5. rec = [Idle EXCEPT !.at = "passed", !.tag = Label(s)]
    OBVIOUS
  <2> HIDE DEF rec
  <2> QED BY <2>1, <2>2, <2>4, <2>5, CommittedKeeps
<1>2. CASE CommitLost(s)
  <2>1. PICK ended \in Endings, fate \in {"unnamed", "named"} :
          Committed(s, ended, fate) /\ (fate = "named" => build.keys[s] # NoTag)
    BY <1>2 DEF CommitLost
  <2>2. faults' \in 0..MaxFaults /\ Move(s, [Idle EXCEPT !.at = "failed"])
    BY <1>2 DEF CommitLost, Faulty
  <2> DEFINE rec == [Idle EXCEPT !.at = "failed"]
  <2>3. Move(s, rec)
    BY <2>2
  <2>4. rec = [Idle EXCEPT !.at = "failed"]
    OBVIOUS
  <2> HIDE DEF rec
  <2> QED BY <2>1, <2>2, <2>3, <2>4, CommittedKeeps
<1> QED BY <1>1, <1>2

-----------------------------------------------------------------------------
(* The theorems                                                             *)

LEMMA NextKeeps == IInv /\ [Next]_vars => IInv'
<1> SUFFICES ASSUME IInv, [Next]_vars PROVE IInv'
  OBVIOUS
<1>1. ASSUME NEW f \in Files, EditFile(f) PROVE IInv'
  <2>1. tree' \in Trees /\ cmd' \in [Steps -> Nat]
    BY <1>1 DEF IInv, ProjectOK, EditFile, Trees, FileTexts
  <2> QED BY <1>1, <2>1, EditKeeps DEF EditFile
<1>2. ASSUME NEW s \in Steps, EditCommand(s) PROVE IInv'
  <2>1. tree' \in Trees /\ cmd' \in [Steps -> Nat]
    BY <1>2 DEF IInv, ProjectOK, EditCommand
  <2> QED BY <1>2, <2>1, EditKeeps DEF EditCommand
<1>3. ASSUME UNCHANGED vars PROVE IInv'
  BY <1>3 DEF IInv, ProjectOK, BuildOK, KeyOK, ImageOK, JobOK, RunningOK, PassedOK, Inherited,
              In, At, Label, IsEphemeral, Outcomes, vars
<1>4. CASE Over
  BY <1>3, <1>4 DEF Over
<1>5. CASE \E f \in Files : EditFile(f) \/ Pack(f)
  BY <1>1, <1>5, PackKeeps
<1>6. CASE \E s \in Steps :
             \/ EditCommand(s) \/ Hit(s) \/ Boot(s) \/ Fails(s) \/ Commit(s) \/ CommitLost(s)
             \/ Skip(s)
  BY <1>2, <1>6, HitKeeps, BootKeeps, FailKeeps, CommitKeeps
<1>7. CASE Plan \/ PackFails \/ Finish \/ Killed
  BY <1>7, PlanKeeps, PackFailsKeeps, FinishKeeps, KilledKeeps
<1> QED BY <1>3, <1>4, <1>5, <1>6, <1>7 DEF Next

\* The inductive invariant: a tag says truly what its image was made of, a box
\* is its parent's image with the archive over it, and a step that passed has an
\* image of its own (keygen.py, runner/vm.rs:93, hm-vm/src/vm.rs:99).
THEOREM BoxInvariance == Spec => []IInv
<1> QED BY InitHolds, NextKeeps, PTL DEF Spec

LEMMA HitsAreCurrent == ASSUME IInv PROVE HitIsCurrent
<1> SUFFICES ASSUME NEW s \in Steps, job[s].hit
             PROVE  LET image == images[job[s].tag] IN
                      /\ Policy[s] = "on_change" =>
                           \/ image.raced \/ ParentOf[s] # NoStep
                           \/ Contents(image.files) = Contents(build.seen)
                      /\ Policy[s] = "forever" => image.cmd = build.cmds[s]
  BY DEF HitIsCurrent
<1> DEFINE t == job[s].tag
<1>1. PassedOK(s) /\ build.keys[s] # NoTag
  BY DEF IInv, JobOK
<1>2. t \in DOMAIN images /\ t = build.keys[s] /\ t[1] = s
  BY <1>1, LabelIsOwn DEF PassedOK
<1>3. s # "ephemeral" /\ ImageOK(t) /\ KeyOK(s)
  BY <1>2, EphemeralAssumption DEF IInv, BuildOK
<1>4. Policy[s] = "forever" => <<images[t].cmd>> = <<build.cmds[s]>>
  BY <1>1, <1>2, <1>3 DEF ImageOK, KeyOK
<1>5. Policy[s] = "forever" => images[t].cmd = build.cmds[s]
  BY <1>4
<1>6. Policy[s] = "on_change" /\ ParentOf[s] = NoStep /\ ~images[t].raced =>
        Contents(images[t].files) = Contents(build.seen)
  BY <1>1, <1>2, <1>3 DEF ImageOK, KeyOK
<1> QED BY <1>5, <1>6

\* A command sees the project as it was packed, over the images of the steps it
\* builds upon, and nothing else: any number of edits, builds and steps cannot
\* make the cache serve what the policy does not allow (runner/vm.rs:93,
\* keygen.py).
THEOREM BoxesAreTheProject == Spec => []BoxIsProject
<1>1. ASSUME IInv PROVE BoxIsProject
  <2>1. TypeOK
    BY <1>1 DEF IInv, ProjectOK, BuildOK, JobOK, PassedOK, TypeOK, Trees, FileTexts
  <2>2. SeesArchive
    BY <1>1 DEF IInv, JobOK, RunningOK, SeesArchive
  <2>3. GhostsAreInherited
    BY <1>1 DEF IInv, JobOK, RunningOK, Inherited, GhostsAreInherited
  <2> QED BY <1>1, <2>1, <2>2, <2>3, HitsAreCurrent DEF BoxIsProject
<1> QED BY <1>1, BoxInvariance, PTL

\* An image holds the commands of one lineage, all that its steps ran, never one
\* that failed with its exit code known; and an ephemeral image that an outcome
\* could name is one of the build under way, until its removal is tried: for any
\* number of failed commits, dropped steps, failed removals and kills
\* (docker.rs:306, vm.rs:130, scheduler.rs:301).
THEOREM ImagesAreTheirOwn == Spec => []ImagesAreOwn
<1>1. ASSUME IInv PROVE ImagesAreOwn
  <2>1. LineageIsOwn
    BY <1>1, RanIsOwn DEF LineageIsOwn
  <2>2. FailedLeavesNoImage
    BY <1>1 DEF IInv, ImageOK, Owner, IsEphemeral, FailedLeavesNoImage
  <2>3. EphemeralsReaped
    BY <1>1 DEF IInv, ImageOK, EphemeralsReaped
  <2> QED BY <2>1, <2>2, <2>3 DEF ImagesAreOwn
<1> QED BY <1>1, BoxInvariance, PTL

=============================================================================
